---- MODULE Spec2Model ----
(***************************************************************************)
(* ZTNET member lifecycle and reconciliation.                              *)
(*                                                                         *)
(* State: the network_members table (db), the member records held by the   *)
(* local ZeroTier controller (zt), the option rows read by the procedures  *)
(* (opts), the outcome of the last procedure call (last), the requests     *)
(* that are in flight between two of their database accesses (pend) and    *)
(* the Notation table (notation).                                          *)
(*                                                                         *)
(* Every tRPC procedure of networkMemberRouter is an operator from a       *)
(* world [db, zt, ev, res] to a world: ev is the list of external effects  *)
(* of the call in program order, res is "run" while the handler runs and   *)
(* the error code once it has thrown.                                      *)
(***************************************************************************)
EXTENDS Integers, Sequences, FiniteSets, TLC

VARIABLES db, zt, opts, last, pend, notation

vars == <<db, zt, opts, last, pend, notation>>

\* ------------------------------------------------------------ values

\* prisma null (String? columns) and zod .optional() left out
NULL == "<null>"

\* ctx.session.user.id
SessionUser == "U"

\* the organization of the organization networks
Org == "O"

\* table network: authorId and organizationId per nwid
Networks == {"N1", "N2", "N3", "N4", "N5", "N6", "N7"}

authorId(n) ==
    IF n \in {"N1", "N2", "N3", "N6", "N7"} THEN SessionUser ELSE "V"

organizationId(n) == IF n \in {"N3", "N4"} THEN Org ELSE NULL

\* input.updateParams of Update: has is the set of keys the request carries
\* (UpdateDatabaseOnly's updateParams carry deleted, Update's never do)
NoParams ==
    [has |-> {}, name |-> NULL, authorized |-> FALSE, deleted |-> FALSE,
     description |-> NULL, ipAssignments |-> {}, tags |-> {},
     capabilities |-> {}]

ParamDeleted(b) == [NoParams EXCEPT !.has = {"deleted"}, !.deleted = b]

ParamName(nm) == [NoParams EXCEPT !.has = {"name"}, !.name = nm]

ParamAuthorized(b) == [NoParams EXCEPT !.has = {"authorized"}, !.authorized = b]

ParamAssign ==
    [NoParams EXCEPT !.has = {"ipAssignments", "tags", "capabilities"},
                     !.ipAssignments = {"10.0.0.1"}, !.tags = {1},
                     !.capabilities = {1}]

ParamNameAuthorized(nm, b) ==
    [NoParams EXCEPT !.has = {"name", "authorized"}, !.name = nm,
                     !.authorized = b]

ParamNameIps(nm, ips) ==
    [NoParams EXCEPT !.has = {"name", "ipAssignments"}, !.name = nm,
                     !.ipAssignments = ips]

\* the updateParams stash hands to Update
StashParams ==
    [NoParams EXCEPT
        !.has = {"authorized", "ipAssignments", "tags", "capabilities"}]

\* ------------------------------------------------------------ events

Event(k, n, p, ok) == [k |-> k, n |-> n, p |-> p, ok |-> ok]

RECURSIVE CountKind(_, _)
CountKind(ev, kinds) ==
    IF ev = <<>> THEN 0
    ELSE (IF Head(ev).k \in kinds THEN 1 ELSE 0) + CountKind(Tail(ev), kinds)

ZtKinds == {"zt_update", "zt_delete"}

World(d, z) == [db |-> d, zt |-> z, ev |-> <<>>, res |-> "run"]

Throw(w, code) == IF w.res # "run" THEN w ELSE [w EXCEPT !.res = code]

\* try { ... } catch { log }: what the block did stays, its error does not
Caught(w) == [w EXCEPT !.res = "run"]

\* ------------------------------------------------------------ tables

Rows(d, id, nwid) == {r \in d : r.id = id /\ r.nwid = nwid}

HasRow(d, id, nwid) == Rows(d, id, nwid) # {}

\* findUnique / findFirst on (id, nwid); only used under HasRow
RowOf(d, id, nwid) == CHOOSE r \in Rows(d, id, nwid) : TRUE

ZtRows(z, id, nwid) == {m \in z : m.id = id /\ m.nwid = nwid}

\* ------------------------------------------------ external collaborators

\* utils/role checkUserOrganizationRole(minimumRequiredRole: USER): throws
\* unless the session user holds USER or more in the organization
RoleAtLeastUser(o) == o.role \in {"USER", "ADMIN"}

checkUserOrganizationRole(w, o, org) ==
    IF org # NULL /\ ~RoleAtLeastUser(o) THEN Throw(w, "ROLE") ELSE w

\* a controller call answers while fewer than env.zt calls were made by
\* this request; from then on the controller rejects
ZtAnswers(w, env) == CountKind(w.ev, ZtKinds) < env.zt

ZtApply(z, id, nwid, p) ==
    LET old == IF ZtRows(z, id, nwid) # {}
               THEN CHOOSE m \in ZtRows(z, id, nwid) : TRUE
               ELSE [id |-> id, nwid |-> nwid, authorized |-> FALSE,
                     name |-> NULL, ipAssignments |-> {}, tags |-> {},
                     capabilities |-> {}]
        new == [id |-> id, nwid |-> nwid,
                authorized |-> IF "authorized" \in p.has
                               THEN p.authorized ELSE old.authorized,
                name |-> IF "name" \in p.has THEN p.name ELSE old.name,
                ipAssignments |-> IF "ipAssignments" \in p.has
                                  THEN p.ipAssignments ELSE old.ipAssignments,
                tags |-> IF "tags" \in p.has THEN p.tags ELSE old.tags,
                capabilities |-> IF "capabilities" \in p.has
                                 THEN p.capabilities ELSE old.capabilities]
    IN  (z \ ZtRows(z, id, nwid)) \cup {new}

\* ztController.member_update: the controller stores the posted fields, or
\* rejects; a central network lives on ZeroTier Central, not in zt
member_update(w, env, nwid, id, central, p, code) ==
    IF w.res # "run" THEN w
    ELSE LET ok == ZtAnswers(w, env)
         IN  [w EXCEPT
                !.zt = IF ok /\ ~central THEN ZtApply(@, id, nwid, p) ELSE @,
                !.ev = Append(@, Event("zt_update", nwid, p, ok)),
                !.res = IF ok THEN "run" ELSE code]

\* ztController.member_delete
member_delete(w, env, nwid, id, central) ==
    IF w.res # "run" THEN w
    ELSE LET ok == ZtAnswers(w, env)
         IN  [w EXCEPT
                !.zt = IF ok /\ ~central THEN @ \ ZtRows(@, id, nwid) ELSE @,
                !.ev = Append(@, Event("zt_delete", nwid, NoParams, ok)),
                !.res = IF ok THEN "run" ELSE "INTERNAL_SERVER_ERROR"]

\* utils/webhook sendWebhook: webhooks belong to an organization, so a call
\* without organizationId delivers nothing; the k-th delivery of a request
\* fails when k is in env.hookFail
sendWebhook(w, env, org, nwid) ==
    IF w.res # "run" \/ org = NULL THEN w
    ELSE LET k == CountKind(w.ev, {"webhook"}) + 1
             ok == k \notin env.hookFail
         IN  [w EXCEPT !.ev = Append(@, Event("webhook", nwid, NoParams, ok)),
                       !.res = IF ok THEN "run" ELSE "hook_exception"]

\* } catch (error) { throwError(error.message) }
throwError(w) ==
    IF w.res = "hook_exception" THEN [w EXCEPT !.res = "WEBHOOK_FAILED"] ELSE w

\* utils/organizationNotifications sendOrganizationAdminNotification
sendOrganizationAdminNotification(w, env, nwid) ==
    IF w.res # "run" THEN w
    ELSE [w EXCEPT !.ev = Append(@, Event("notify", nwid, NoParams, env.notif)),
                   !.res = IF env.notif THEN "run" ELSE "notify_exception"]

\* if (input.organizationId) { try { await sendOrganizationAdminNotification
\* (...) } catch (error) { console.error(...) } }
NotifyAdmins(w, env, org, nwid) ==
    IF w.res # "run" \/ org = NULL THEN w
    ELSE Caught(sendOrganizationAdminNotification(w, env, nwid))

\* ------------------------------------------------ prisma.network_members

\* nodeid @default(autoincrement()): a number no present row carries
NextNodeid(d) ==
    IF d = {} THEN 1
    ELSE 1 + (CHOOSE x \in {r.nodeid : r \in d} :
                 \A y \in {r.nodeid : r \in d} : y <= x)

\* the column defaults of model network_members; notations holds the
\* notationId of every NetworkMemberNotation row of this nodeid, so the
\* onDelete: Cascade of that relation happens when the row goes
NewRow(d, id, nwid, nm) ==
    [nodeid |-> NextNodeid(d), id |-> id, nwid |-> nwid, deleted |-> FALSE,
     permanentlyDeleted |-> FALSE, authorized |-> FALSE, name |-> nm,
     description |-> NULL, physicalAddress |-> NULL, online |-> FALSE,
     notations |-> {}]

\* faulty variant: a table without the @@unique([id, nwid]) index
DbCreate_NoUnique(w, row) ==
    IF w.res # "run" THEN w
    ELSE [w EXCEPT !.db = @ \cup {row},
                   !.ev = Append(@, Event("db_create", row.nwid, NoParams, TRUE))]

\* create: the @@unique([id, nwid]) index rejects a second row
DbCreate(w, row) ==
    IF w.res # "run" THEN w
    ELSE IF HasRow(w.db, row.id, row.nwid)
    THEN [w EXCEPT !.ev = Append(@, Event("db_create", row.nwid, NoParams, FALSE)),
                   !.res = "CONFLICT"]
    ELSE [w EXCEPT !.db = @ \cup {row},
                   !.ev = Append(@, Event("db_create", row.nwid, NoParams, TRUE))]

\* the data of a write, as the events record it
Data(keys) == [NoParams EXCEPT !.has = keys]

\* row r with the columns of data written
Written(r, data) ==
    [r EXCEPT
       !.deleted = IF "deleted" \in DOMAIN data THEN data.deleted ELSE @,
       !.permanentlyDeleted = IF "permanentlyDeleted" \in DOMAIN data
                              THEN data.permanentlyDeleted ELSE @,
       !.authorized = IF "authorized" \in DOMAIN data
                      THEN data.authorized ELSE @,
       !.name = IF "name" \in DOMAIN data THEN data.name ELSE @,
       !.description = IF "description" \in DOMAIN data
                       THEN data.description ELSE @]

\* updateMany({ where, data }): match is the set of rows where selects
DbUpdateMany(w, nwid, match, data) ==
    IF w.res # "run" THEN w
    ELSE [w EXCEPT
            !.db = {IF r \in match THEN Written(r, data) ELSE r : r \in @},
            !.ev = Append(@, Event("db_update", nwid, Data(DOMAIN data), TRUE))]

\* update({ where: id_nwid, data }): throws when there is no such row
DbUpdate(w, nwid, match, data) ==
    IF w.res # "run" THEN w
    ELSE IF match = {}
    THEN [w EXCEPT
            !.ev = Append(@, Event("db_update", nwid, Data(DOMAIN data), FALSE)),
            !.res = "NOT_FOUND"]
    ELSE DbUpdateMany(w, nwid, match, data)

\* delete where id_nwid: throws when there is no such row
DbDelete(w, id, nwid) ==
    IF w.res # "run" THEN w
    ELSE IF ~HasRow(w.db, id, nwid)
    THEN [w EXCEPT !.ev = Append(@, Event("db_delete", nwid, NoParams, FALSE)),
                   !.res = "NOT_FOUND"]
    ELSE [w EXCEPT !.db = @ \ Rows(@, id, nwid),
                   !.ev = Append(@, Event("db_delete", nwid, NoParams, TRUE))]

\* ------------------------------------------------ networkMemberRouter

\* where: { nwid_ref: ... } of the global-naming queries
InScope(org, nwid) ==
    IF org = NULL
    THEN authorId(nwid) = SessionUser /\ organizationId(nwid) = NULL
    ELSE organizationId(nwid) = org

\* findFirst({ id, deleted: false, nwid_ref, nwid: { not }, name: { not: null } })
\* of create: the row findFirst returns is the one of network env.pick when
\* that network has one, the query stating no order
ExistingName(d, in, env) ==
    LET cands == {r \in d : /\ r.id = in.id
                            /\ ~r.deleted
                            /\ InScope(in.organizationId, r.nwid)
                            /\ r.nwid # in.nwid
                            /\ r.name # NULL}
        first == IF \E r \in cands : r.nwid = env.pick
                 THEN CHOOSE r \in cands : r.nwid = env.pick
                 ELSE CHOOSE r \in cands : TRUE
    IN  IF cands = {} THEN NULL ELSE first.name

\* JavaScript truthiness of a name: null and "" are falsy
Truthy(nm) == nm # NULL /\ nm # ""

\* create, if (member) { ... }: the name written back to an existing row
ReaddName(d, o, in, env, member) ==
    IF o.renameNodeGlobally
    THEN IF in.organizationId = NULL \/ o.orgRenameNodeGlobally
         THEN IF Truthy(ExistingName(d, in, env))
              THEN ExistingName(d, in, env) ELSE member.name
         ELSE member.name
    ELSE IF o.addMemberIdAsName THEN in.id ELSE member.name

\* create, new member: the name of the inserted row
NewName(d, o, in, env) ==
    LET global == IF o.renameNodeGlobally
                     /\ (in.organizationId = NULL \/ o.orgRenameNodeGlobally)
                     /\ Truthy(ExistingName(d, in, env))
                  THEN ExistingName(d, in, env) ELSE NULL
    IN  IF ~Truthy(global) /\ o.addMemberIdAsName THEN in.id ELSE global

\* create, the branch of a member that has a row: un-stash it
CreateExisting(w, o, in, env, member) ==
    LET nm == ReaddName(w.db, o, in, env, member)
        w1 == DbUpdate(w, in.nwid, Rows(w.db, in.id, in.nwid),
                       [deleted |-> FALSE, permanentlyDeleted |-> FALSE,
                        name |-> nm])
    IN  NotifyAdmins(w1, env, in.organizationId, in.nwid)

\* create, the branch of a member without a row
CreateNew(w, o, in, env) ==
    LET w1 == throwError(sendWebhook(w, env, in.organizationId, in.nwid))
        w2 == DbCreate(w1, NewRow(w1.db, in.id, in.nwid,
                                  NewName(w1.db, o, in, env)))
    IN  NotifyAdmins(w2, env, in.organizationId, in.nwid)

\* create up to the findUnique of the member: the role check and, for a
\* central network, the call to ZeroTier Central that ends the procedure
CreateEnter(w, o, in, env) ==
    LET w1 == checkUserOrganizationRole(w, o, in.organizationId)
    IN  IF w1.res # "run" \/ ~in.central THEN w1
        ELSE member_update(w1, env, in.nwid, in.id, TRUE, NoParams,
                           "INTERNAL_SERVER_ERROR")

\* create from the findUnique on; found is what the findUnique returned
CreateWrite(w, o, in, env, found) ==
    IF found # {}
    THEN CreateExisting(w, o, in, env, CHOOSE r \in found : TRUE)
    ELSE CreateNew(w, o, in, env)

\* networkMemberRouter.create; in = [id, nwid, organizationId, central]
CreateOp(w, o, in, env) ==
    LET w1 == CreateEnter(w, o, in, env)
    IN  IF w1.res # "run" \/ in.central THEN w1
        ELSE CreateWrite(w1, o, in, env, Rows(w1.db, in.id, in.nwid))

\* ../utils/ipUtils isValidIP
isValidIP(ip) == ip \in {"10.0.0.1", "10.0.0.2"}

\* Update, findMany of the global rename: the OTHER networks of the scope
\* that hold the member un-stashed
NetworksWithMember(d, in) ==
    {r.nwid : r \in {x \in d : /\ x.id = in.id
                               /\ ~x.deleted
                               /\ x.nwid # in.nwid
                               /\ InScope(in.organizationId, x.nwid)}}

\* Update, for (const { nwid: networkId } of networksWithMember): controller
\* first, then the database, one network after the other
RECURSIVE RenameLoop(_, _, _, _)
RenameLoop(w, env, in, nets) ==
    IF nets = <<>> \/ w.res # "run" THEN w
    ELSE LET networkId == Head(nets)
             w1 == member_update(w, env, networkId, in.id, FALSE, in.p,
                                 "INTERNAL_SERVER_ERROR")
             w2 == DbUpdateMany(w1, networkId,
                                {r \in Rows(w1.db, in.id, networkId) :
                                   ~r.deleted},
                                [f \in {"name"} \cup
                                    (IF in.organizationId = NULL
                                     THEN in.p.has \cap {"description"}
                                     ELSE {}) |-> in.p[f]])
         IN  RenameLoop(w2, env, in, Tail(nets))

\* Update, if (updateParams.name) { ... }: whether the rename fans out
RenamesGlobally(o, in) ==
    /\ "name" \in in.p.has
    /\ Truthy(in.p.name)
    /\ IF in.organizationId = NULL THEN o.renameNodeGlobally
       ELSE o.orgRenameNodeGlobally

\* faulty variant: a failed fan-out puts tables and controller back
GlobalRename_Compensated(w, o, in, env) ==
    IF w.res = "run" /\ RenamesGlobally(o, in)
    THEN LET Affected(n) == n \in NetworksWithMember(w.db, in)
             r == RenameLoop(w, env, in, SelectSeq(env.order, Affected))
         IN  IF r.res = "run" THEN r
             ELSE [r EXCEPT !.db = w.db, !.zt = w.zt]
    ELSE w

\* Update, the global rename; findMany states no order: env.order gives it
GlobalRename(w, o, in, env) ==
    IF w.res = "run" /\ RenamesGlobally(o, in)
    THEN LET Affected(n) == n \in NetworksWithMember(w.db, in)
         IN  RenameLoop(w, env, in, SelectSeq(env.order, Affected))
    ELSE w

\* Update, the payload loop: BAD_REQUEST on an invalid ipAssignments entry
ValidatePayload(w, in) ==
    IF /\ "ipAssignments" \in in.p.has
       /\ \E ip \in in.p.ipAssignments : ~isValidIP(ip)
    THEN Throw(w, "BAD_REQUEST") ELSE w

\* faulty variant: Update also writes deleted: false
UpdateRow_Unstashes(w, in) ==
    IF ~in.central /\ w.res = "run" /\ HasRow(w.db, in.id, in.nwid)
    THEN DbUpdate(w, in.nwid, Rows(w.db, in.id, in.nwid), [deleted |-> FALSE])
    ELSE w

\* Update, if (!central) { if (dbMember) { ... } }
UpdateRow(w, in) ==
    LET databaseUpdateData ==
            [f \in in.p.has \cap {"name", "authorized", "description"}
                |-> in.p[f]]
    IN  IF /\ ~in.central
           /\ w.res = "run"
           /\ HasRow(w.db, in.id, in.nwid)
           /\ DOMAIN databaseUpdateData # {}
        THEN DbUpdate(w, in.nwid, Rows(w.db, in.id, in.nwid),
                      databaseUpdateData)
        ELSE w

\* faulty variant: the call on the edited network without its .catch
UpdateOp_NoCatch(w, o, in, env) ==
    LET w1 == checkUserOrganizationRole(w, o, in.organizationId)
        w2 == GlobalRename(w1, o, in, env)
        w3 == ValidatePayload(w2, in)
        w4 == member_update(w3, env, in.nwid, in.id, in.central, in.p,
                            "INTERNAL_SERVER_ERROR")
        w5 == UpdateRow(w4, in)
        w6 == throwError(sendWebhook(w5, env, in.organizationId, in.nwid))
    IN  IF "authorized" \in in.p.has /\ ~in.p.authorized
        THEN NotifyAdmins(w6, env, in.organizationId, in.nwid)
        ELSE w6

\* faulty variant: the row is written before the controller is asked
UpdateOp_TableFirst(w, o, in, env) ==
    LET w1 == checkUserOrganizationRole(w, o, in.organizationId)
        w2 == GlobalRename(w1, o, in, env)
        w3 == ValidatePayload(w2, in)
        w4 == UpdateRow(w3, in)
        w5 == member_update(w4, env, in.nwid, in.id, in.central, in.p,
                            "FORBIDDEN")
        w6 == throwError(sendWebhook(w5, env, in.organizationId, in.nwid))
    IN  IF "authorized" \in in.p.has /\ ~in.p.authorized
        THEN NotifyAdmins(w6, env, in.organizationId, in.nwid)
        ELSE w6

\* networkMemberRouter.Update; in = [id, nwid, organizationId, central, p]
UpdateOp(w, o, in, env) ==
    LET w1 == checkUserOrganizationRole(w, o, in.organizationId)
        w2 == GlobalRename(w1, o, in, env)
        w3 == ValidatePayload(w2, in)
        w4 == member_update(w3, env, in.nwid, in.id, in.central, in.p,
                            "FORBIDDEN")
        w5 == UpdateRow(w4, in)
        w6 == throwError(sendWebhook(w5, env, in.organizationId, in.nwid))
    IN  IF "authorized" \in in.p.has /\ ~in.p.authorized
        THEN NotifyAdmins(w6, env, in.organizationId, in.nwid)
        ELSE w6

\* networkMemberRouter.Tags; in = [id, nwid, organizationId, central, p]
TagsOp(w, o, in, env) ==
    LET w1 == checkUserOrganizationRole(w, o, in.organizationId)
        w2 == member_update(w1, env, in.nwid, in.id, in.central,
                            [NoParams EXCEPT !.has = {"tags"},
                                             !.tags = in.p.tags],
                            "FORBIDDEN")
    IN  throwError(sendWebhook(w2, env, in.organizationId, in.nwid))

\* networkMemberRouter.UpdateDatabaseOnly; in = [id, nwid, organizationId,
\* central, p]: the nested update throws when the row does not exist
UpdateDatabaseOnlyOp(w, o, in, env) ==
    LET w1 == checkUserOrganizationRole(w, o, in.organizationId)
        w2 == DbUpdate(w1, in.nwid, Rows(w1.db, in.id, in.nwid),
                       [f \in in.p.has \cap {"deleted", "description"}
                           |-> in.p[f]])
    IN  throwError(sendWebhook(w2, env, in.organizationId, in.nwid))

\* faulty variant: stash awaits Update outside try/catch
Deauthorize_Uncaught(w, o, in, env) ==
    UpdateOp(w, o, [id |-> in.id, nwid |-> in.nwid,
                    organizationId |-> in.organizationId,
                    central |-> FALSE, p |-> StashParams], env)

\* stash, try { response = await caller.Update(...) } catch { log }
Deauthorize(w, o, in, env) ==
    Caught(UpdateOp(w, o, [id |-> in.id, nwid |-> in.nwid,
                           organizationId |-> in.organizationId,
                           central |-> FALSE, p |-> StashParams], env))

\* faulty variant: stash writes { deleted: true, permanentlyDeleted: false }
MarkDeleted_ClearsPermanent(w, in) ==
    DbUpdateMany(w, in.nwid, Rows(w.db, in.id, in.nwid),
                 [deleted |-> TRUE, permanentlyDeleted |-> FALSE])

\* stash, networkMembers: { updateMany: { data: { deleted: true } } }
MarkDeleted(w, in) ==
    DbUpdateMany(w, in.nwid, Rows(w.db, in.id, in.nwid), [deleted |-> TRUE])

\* networkMemberRouter.stash; in = [id, nwid, organizationId]
StashOp(w, o, in, env) ==
    LET w1 == checkUserOrganizationRole(w, o, in.organizationId)
    IN  IF w1.res # "run" THEN w1
        ELSE LET w2 == Deauthorize(w1, o, in, env)
                 w3 == MarkDeleted(w2, in)
             IN  throwError(sendWebhook(w3, env, in.organizationId, in.nwid))

\* faulty variant: delete never sees the member as stashed
AlreadyStashed_Never(d, in) == FALSE

\* delete, existingMember?.deleted of the findFirst at the start
AlreadyStashed(d, in) ==
    HasRow(d, in.id, in.nwid) /\ RowOf(d, in.id, in.nwid).deleted

\* delete, if (existingMember?.deleted) { update permanentlyDeleted: true }
MarkPermanentlyDeleted(w, env, in) ==
    LET w1 == DbUpdate(w, in.nwid, Rows(w.db, in.id, in.nwid),
                       [permanentlyDeleted |-> TRUE])
    IN  NotifyAdmins(w1, env, in.organizationId, in.nwid)

\* delete, the regular deletion: the row goes, then the side effects
RemoveRow(w, env, in) ==
    LET w1 == DbDelete(w, in.id, in.nwid)
        w2 == NotifyAdmins(w1, env, in.organizationId, in.nwid)
    IN  throwError(sendWebhook(w2, env, in.organizationId, in.nwid))

\* faulty variant: delete calls the controller for a stashed member too
DeleteOp_ControllerFirst(w, o, in, env) ==
    LET w1 == checkUserOrganizationRole(w, o, in.organizationId)
        w2 == member_delete(w1, env, in.nwid, in.id, in.central)
    IN  IF w2.res # "run" \/ in.central THEN w2
        ELSE IF AlreadyStashed(w.db, in) THEN MarkPermanentlyDeleted(w2, env, in)
        ELSE RemoveRow(w2, env, in)

\* faulty variant: delete removes the row before it calls the controller
DeleteOp_TableFirst(w, o, in, env) ==
    LET w1 == checkUserOrganizationRole(w, o, in.organizationId)
        stashed == AlreadyStashed(w.db, in)
    IN  IF w1.res # "run" THEN w1
        ELSE IF stashed
        THEN IF in.central THEN w1 ELSE MarkPermanentlyDeleted(w1, env, in)
        ELSE member_delete(IF in.central THEN w1 ELSE RemoveRow(w1, env, in),
                           env, in.nwid, in.id, in.central)

\* networkMemberRouter.delete; in = [id, nwid, organizationId, central]
DeleteOp(w, o, in, env) ==
    LET w1 == checkUserOrganizationRole(w, o, in.organizationId)
        stashed == AlreadyStashed(w.db, in)
        w2 == IF stashed THEN w1
              ELSE member_delete(w1, env, in.nwid, in.id, in.central)
    IN  IF w2.res # "run" \/ in.central THEN w2
        ELSE IF stashed THEN MarkPermanentlyDeleted(w2, env, in)
        ELSE RemoveRow(w2, env, in)

\* bulkDeleteStashed, the permission check and the network lookup
BulkAccess(w, o, in) ==
    IF in.organizationId # NULL
    THEN IF o.role = "NONE" THEN Throw(w, "UNAUTHORIZED")
         ELSE IF organizationId(in.nwid) = in.organizationId THEN w
         ELSE Throw(w, "NOT_FOUND")
    ELSE IF authorId(in.nwid) = SessionUser THEN w
         ELSE Throw(w, "NOT_FOUND")

\* faulty variant: the updateMany selects by member id only, not by network
BulkDeleteStashedOp_AnyNetwork(w, o, in, env) ==
    LET w1 == BulkAccess(w, o, in)
        membersToDelete == {r \in w.db : r.nwid = in.nwid /\ r.deleted}
        memberIds == {r.id : r \in membersToDelete}
        match == {r \in w.db : r.id \in memberIds /\ r.deleted}
    IN  IF w1.res # "run" \/ membersToDelete = {} THEN w1
        ELSE Caught(sendWebhook(
                 DbUpdateMany(w1, in.nwid, match,
                              [permanentlyDeleted |-> TRUE]),
                 env, in.organizationId, in.nwid))

\* networkMemberRouter.bulkDeleteStashed; in = [nwid, organizationId]
BulkDeleteStashedOp(w, o, in, env) ==
    LET w1 == BulkAccess(w, o, in)
        membersToDelete == {r \in w.db : r.nwid = in.nwid /\ r.deleted}
        memberIds == {r.id : r \in membersToDelete}
        match == {r \in w.db : /\ r.nwid = in.nwid
                                /\ r.id \in memberIds
                                /\ r.deleted}
    IN  IF w1.res # "run" \/ membersToDelete = {} THEN w1
        ELSE Caught(sendWebhook(
                 DbUpdateMany(w1, in.nwid, match,
                              [permanentlyDeleted |-> TRUE]),
                 env, in.organizationId, in.nwid))

\* ------------------------------------------------ networkRouter

\* { ...c, ...r }: the fields of both, r's value where both have the field
Spread(c, r) ==
    [f \in DOMAIN c \cup DOMAIN r |-> IF f \in DOMAIN r THEN r[f] ELSE c[f]]

\* what the controller's peer list says about the members of one call
Statuses ==
    {[physicalAddress |-> "198.51.100.7", conStatus |-> "direct"],
     [physicalAddress |-> NULL, conStatus |-> "offline"]}

\* syncMemberPeersAndStatus: the controller's members, each with its
\* physicalAddress and connection status; the rows are left as they are
syncMemberPeersAndStatus(members, status) ==
    {Spread(m, status) : m \in members}

\* faulty variant: a row is listed only when the controller reports it
MergedMembers_ReportedOnly(d, nwid, reported) ==
    LET allDatabaseMembers == {r \in d : r.nwid = nwid}
        fromDb == {Spread(CHOOSE m \in reported : m.id = r.id, r)
                   : r \in {x \in allDatabaseMembers :
                              /\ ~x.deleted
                              /\ \E m \in reported : m.id = x.id}}
        fromZt == {m \in reported :
                     ~\E r \in allDatabaseMembers : r.id = m.id}
    IN  fromDb \cup fromZt

\* getNetworkById, the merge: members is mergedMembersMap as the set of its
\* values; reported is membersWithStatusAndPeers
MergedMembers(d, nwid, reported) ==
    LET allDatabaseMembers == {r \in d : r.nwid = nwid}
        permanentlyDeletedMemberIds ==
            {r.id : r \in {x \in d : x.nwid = nwid /\ x.permanentlyDeleted}}
        fromDb == {IF \E m \in reported : m.id = r.id
                   THEN Spread(CHOOSE m \in reported : m.id = r.id, r)
                   ELSE r
                   : r \in {x \in allDatabaseMembers : ~x.deleted}}
        fromZt == {m \in reported :
                     /\ ~\E r \in allDatabaseMembers : r.id = m.id
                     /\ m.id \notin permanentlyDeletedMemberIds}
    IN  fromDb \cup fromZt

\* faulty variant: every row with deleted = true counts as a zombie
ZombieMembers_AllDeleted(d, nwid) ==
    {r \in d : r.nwid = nwid /\ r.deleted}

\* getNetworkById, zombieMembers
ZombieMembers(d, nwid) ==
    {r \in d : r.nwid = nwid /\ r.deleted /\ ~r.permanentlyDeleted}

\* getNetworkById, the access check: the author, or a user of the network's
\* organization
MayRead(o, nwid) ==
    \/ authorId(nwid) = SessionUser
    \/ (organizationId(nwid) # NULL /\ o.role # "NONE")

\* ------------------------------------------------ the state machine

Input(id, nwid, org, central, p) ==
    [id |-> id, nwid |-> nwid, organizationId |-> org, central |-> central,
     p |-> p]

Env(z, h, n, pk, ord) ==
    [zt |-> z, hookFail |-> h, notif |-> n, pick |-> pk, order |-> ord]

\* what the caller of a procedure gets back: "ok" or the error code
Result(w) == IF w.res = "run" THEN "ok" ELSE w.res

\* the collaborators that failed during a call
Failed(w) ==
    {w.ev[i].k : i \in {j \in 1..Len(w.ev) :
                          /\ ~w.ev[j].ok
                          /\ w.ev[j].k \in {"zt_update", "zt_delete",
                                            "webhook", "notify"}}}

\* the table writes a call made
Wrote(w) ==
    {w.ev[i].k : i \in {j \in 1..Len(w.ev) :
                          /\ w.ev[j].ok
                          /\ w.ev[j].k \in {"db_create", "db_update",
                                            "db_delete"}}}

\* the record of the last call, and whether the call before it was a stash
\* of the same member
Outcome(op, in, w, members, zombies) ==
    [op |-> op, in |-> in, res |-> Result(w), failed |-> Failed(w),
     wrote |-> Wrote(w), members |-> members, zombieMembers |-> zombies,
     afterStash |-> /\ last.op = "stash"
                    /\ last.in.id = in.id
                    /\ last.in.nwid = in.nwid]

\* a procedure call that runs from its first to its last statement
Call(op, in, w) ==
    /\ db' = w.db
    /\ zt' = w.zt
    /\ last' = Outcome(op, in, w, {}, {})
    /\ UNCHANGED <<opts, pend, notation>>

Now == World(db, zt)

\* A domain D names the requests a specification draws from (ids, nets,
\* orgs, centrals, params), the option rows (opts) and the orders in which
\* an unordered query may answer (picks, orders).  The outcomes of the
\* collaborators are drawn per call: how many controller calls answer, which
\* webhook deliveries fail, whether the admin notification fails.  Without
\* organizationId no webhook and no notification is attempted, so their
\* outcomes are not drawn; a domain with controllerFails = FALSE has a
\* controller that answers every call.
Envs(D, org, calls, hooks) ==
    {Env(z, h, n, pk, ord) :
        z \in IF D.controllerFails THEN 0..calls ELSE {calls},
        h \in IF org = NULL THEN {{}} ELSE SUBSET (1..hooks),
        n \in IF org = NULL THEN {TRUE} ELSE BOOLEAN,
        pk \in D.picks, ord \in D.orders}

Create(D) ==
    \E id \in D.ids, nwid \in D.nets, org \in D.orgs, c \in D.centrals :
      \E env \in Envs(D, org, IF c THEN 1 ELSE 0, 1) :
        LET in == Input(id, nwid, org, c, NoParams)
        IN  Call("create", in, CreateOp(Now, opts, in, env))

Update(D) ==
    \E id \in D.ids, nwid \in D.nets, org \in D.orgs, c \in D.centrals,
       p \in D.params :
      \E env \in Envs(D, org, Cardinality(D.nets), 1) :
        LET in == Input(id, nwid, org, c, p)
        IN  Call("Update", in, UpdateOp(Now, opts, in, env))

Tags(D) ==
    \E id \in D.ids, nwid \in D.nets, org \in D.orgs, c \in D.centrals :
      \E env \in Envs(D, org, 1, 1) :
        LET in == Input(id, nwid, org, c,
                        [NoParams EXCEPT !.has = {"tags"}, !.tags = {1}])
        IN  Call("Tags", in, TagsOp(Now, opts, in, env))

UpdateDatabaseOnly(D) ==
    \E id \in D.ids, nwid \in D.nets, org \in D.orgs,
       p \in {ParamDeleted(TRUE), ParamDeleted(FALSE)} :
      \E env \in Envs(D, org, 0, 1) :
        LET in == Input(id, nwid, org, FALSE, p)
        IN  Call("UpdateDatabaseOnly", in,
                 UpdateDatabaseOnlyOp(Now, opts, in, env))

Stash(D) ==
    \E id \in D.ids, nwid \in D.nets, org \in D.orgs :
      \E env \in Envs(D, org, 1, 2) :
        LET in == Input(id, nwid, org, FALSE, NoParams)
        IN  Call("stash", in, StashOp(Now, opts, in, env))

Delete(D) ==
    \E id \in D.ids, nwid \in D.nets, org \in D.orgs, c \in D.centrals :
      \E env \in Envs(D, org, 1, 1) :
        LET in == Input(id, nwid, org, c, NoParams)
        IN  Call("delete", in, DeleteOp(Now, opts, in, env))

BulkDeleteStashed(D) ==
    \E nwid \in D.nets, org \in D.orgs :
      \E env \in Envs(D, org, 0, 1) :
        LET in == Input(NULL, nwid, org, FALSE, NoParams)
        IN  Call("bulkDeleteStashed", in,
                 BulkDeleteStashedOp(Now, opts, in, env))

\* what getNetworkById may get as membersWithStatusAndPeers: the members the
\* controller holds for the network, or fewer ([] when the sync throws)
Reportable(z, nwid) == SUBSET {m \in z : m.nwid = nwid}

\* networkRouter.getNetworkById on a local network: a read
GetNetworkById(D) ==
    \E nwid \in D.nets, ok \in BOOLEAN :
      \E seen \in Reportable(zt, nwid), status \in Statuses :
        LET in == Input(NULL, nwid, NULL, FALSE, NoParams)
            reported == syncMemberPeersAndStatus(seen, status)
            w == IF ~MayRead(opts, nwid) \/ ~ok
                 THEN Throw(Now, "BAD_REQUEST") ELSE Now
        IN  /\ last' = Outcome("getNetworkById", in, w,
                         IF w.res = "run"
                         THEN MergedMembers(db, nwid, reported) ELSE {},
                         IF w.res = "run" THEN ZombieMembers(db, nwid) ELSE {})
            /\ UNCHANGED <<db, zt, opts, pend, notation>>

\* a device joins the network on the controller (not a procedure of the
\* console): the controller holds it, unauthorized
ControllerJoin(D) ==
    \E id \in D.ids, nwid \in D.nets :
        /\ ZtRows(zt, id, nwid) = {}
        /\ zt' = ZtApply(zt, id, nwid, NoParams)
        /\ last' = Outcome("join", Input(id, nwid, NULL, FALSE, NoParams),
                           Now, {}, {})
        /\ UNCHANGED <<db, opts, pend, notation>>

Idle ==
    [op |-> "none", in |-> Input(NULL, NULL, NULL, FALSE, NoParams),
     res |-> "ok", failed |-> {}, wrote |-> {}, members |-> {}, zombieMembers |-> {},
     afterStash |-> FALSE]

InitIn(D) ==
    /\ db = {}
    /\ zt = {}
    /\ opts \in D.opts
    /\ last = Idle
    /\ pend = {}
    /\ notation = {}

NextIn(D) ==
    \/ Create(D)
    \/ Update(D)
    \/ Tags(D)
    \/ UpdateDatabaseOnly(D)
    \/ Stash(D)
    \/ Delete(D)
    \/ BulkDeleteStashed(D)
    \/ GetNetworkById(D)
    \/ ControllerJoin(D)

Options(g, a, og, role) ==
    [renameNodeGlobally |-> g, addMemberIdAsName |-> a,
     orgRenameNodeGlobally |-> og, role |-> role]

\* the lifecycle of one member of an organization network the session user
\* created, called with and without organizationId
Dom ==
    [ids |-> {"m1"}, nets |-> {"N3"}, orgs |-> {NULL, Org},
     centrals |-> BOOLEAN, controllerFails |-> TRUE,
     params |-> {ParamAuthorized(TRUE), ParamAuthorized(FALSE), ParamAssign},
     picks |-> {"N3"}, orders |-> {<<"N3">>},
     opts |-> {Options(FALSE, FALSE, FALSE, "USER")}]

Init == InitIn(Dom)

Next == NextIn(Dom)

Spec == Init /\ [][Next]_vars

\* ------------------------------------------------ concurrent creates

\* how many create calls may be between their findUnique and their write
MaxPending == 2

\* create up to and with the findUnique: the call keeps what it found
CreateBegin(D) ==
    \E id \in D.ids, nwid \in D.nets, org \in D.orgs, s \in 1..MaxPending :
      \E env \in Envs(D, NULL, 0, 0) :
        LET in == Input(id, nwid, org, FALSE, NoParams)
            w == CreateEnter(Now, opts, in, env)
        IN  /\ ~\E c \in pend : c.slot = s
            /\ IF w.res = "run"
               THEN /\ pend' = pend \cup {[slot |-> s, in |-> in,
                                            found |-> Rows(db, id, nwid)]}
                    /\ last' = last
               ELSE /\ pend' = pend
                    /\ last' = Outcome("create", in, w, {}, {})
            /\ UNCHANGED <<db, zt, opts, notation>>

\* the rest of a create call, run on the table as it is by then
CreateEnd(D) ==
    \E c \in pend :
      \E env \in Envs(D, c.in.organizationId, 0, 1) :
        LET w == CreateWrite(Now, opts, c.in, env, c.found)
        IN  /\ db' = w.db
            /\ zt' = w.zt
            /\ last' = Outcome("create", c.in, w, {}, {})
            /\ pend' = pend \ {c}
            /\ UNCHANGED <<opts, notation>>

\* one member of one network, added by calls that overlap
DomRace ==
    [ids |-> {"m1"}, nets |-> {"N3"}, orgs |-> {NULL, Org},
     centrals |-> {FALSE}, controllerFails |-> TRUE, params |-> {},
     picks |-> {"N3"},
     orders |-> {<<"N3">>},
     opts |-> {Options(FALSE, FALSE, FALSE, "USER")}]

InitRace == InitIn(DomRace)

NextRace ==
    \/ CreateBegin(DomRace)
    \/ CreateEnd(DomRace)
    \/ Stash(DomRace)
    \/ Delete(DomRace)

SpecRace == InitRace /\ [][NextRace]_vars

\* ------------------------------------------------ several members

\* two members in two networks of the organization, one of them created by
\* the session user, stashed and re-added in the database only by calls
\* without organizationId
DomBulk ==
    [ids |-> {"m1", "m2"}, nets |-> {"N3", "N4"}, orgs |-> {NULL},
     centrals |-> {FALSE}, controllerFails |-> TRUE, params |-> {},
     picks |-> {"N3"},
     orders |-> {<<"N3", "N4">>},
     opts |-> {Options(FALSE, FALSE, FALSE, "USER")}]

InitBulk == InitIn(DomBulk)

NextBulk ==
    \/ Create(DomBulk)
    \/ UpdateDatabaseOnly(DomBulk)
    \/ BulkDeleteStashed(DomBulk)

SpecBulk == InitBulk /\ [][NextBulk]_vars

\* ------------------------------------------------ several networks

\* the names Update is called with: the empty name is a string too
Names == {"", "a"}

\* one member in two networks of the session user and two networks of the
\* organization, under every combination of the two global-naming settings
DomRename ==
    [ids |-> {"m1"}, nets |-> {"N1", "N2", "N3", "N4"}, orgs |-> {NULL, Org},
     centrals |-> {FALSE}, controllerFails |-> FALSE,
     params |-> {ParamName(nm) : nm \in Names},
     picks |-> {"N1"}, orders |-> {<<"N1", "N2", "N3", "N4">>},
     opts |-> {Options(g, FALSE, og, "USER") : g \in BOOLEAN, og \in BOOLEAN}]

\* the world after member id has joined each of nets on the controller and
\* the session user has added it there with create
RECURSIVE AddedTo(_, _, _, _)
AddedTo(w, o, id, nets) ==
    IF nets = <<>> THEN w
    ELSE LET in == Input(id, Head(nets), NULL, FALSE, NoParams)
             joined == World(w.db, ZtApply(w.zt, id, Head(nets), NoParams))
             env == Env(0, {}, TRUE, Head(nets), nets)
         IN  AddedTo(CreateOp(joined, o, in, env), o, id, Tail(nets))

\* the member is in every network when the renaming starts
InitRename ==
    /\ opts \in DomRename.opts
    /\ \E id \in DomRename.ids, nets \in DomRename.orders :
          LET w == AddedTo(World({}, {}), opts, id, nets)
          IN  db = w.db /\ zt = w.zt
    /\ last = Idle
    /\ pend = {}
    /\ notation = {}

NextRename ==
    \/ Update(DomRename)
    \/ UpdateDatabaseOnly(DomRename)

SpecRename == InitRename /\ [][NextRename]_vars

\* ------------------------------------------------ the fan-out

\* an ipAssignments entry that is no IP address
BadIps == {"10.0.0.999"}

\* one member in four networks of the session user, who has global naming
\* on, renamed while the controller may fail at any call and the networks
\* are visited in either of two orders
DomFanout ==
    [ids |-> {"m1"}, nets |-> {"N1", "N2", "N6", "N7"}, orgs |-> {NULL},
     centrals |-> {FALSE}, controllerFails |-> TRUE,
     params |-> {ParamName("a"), ParamNameIps("a", BadIps)},
     picks |-> {"N1"},
     orders |-> {<<"N1", "N2", "N6", "N7">>, <<"N7", "N6", "N2", "N1">>},
     opts |-> {Options(TRUE, FALSE, FALSE, "USER")}]

\* the member is in every network when the renaming starts
InitFanout ==
    /\ opts \in DomFanout.opts
    /\ \E id \in DomFanout.ids :
          LET w == AddedTo(World({}, {}), opts, id, <<"N1", "N2", "N6", "N7">>)
          IN  db = w.db /\ zt = w.zt
    /\ last = Idle
    /\ pend = {}
    /\ notation = {}

NextFanout ==
    \/ Update(DomFanout)
    \/ UpdateDatabaseOnly(DomFanout)

SpecFanout == InitFanout /\ [][NextFanout]_vars

\* ------------------------------------------------ callers without rights

\* one member of a network of the organization that another user created;
\* the session user is a READ_ONLY member of the organization or no member
\* of it, and calls with and without organizationId
DomRoles ==
    [ids |-> {"m1"}, nets |-> {"N4"}, orgs |-> {NULL, Org},
     centrals |-> {FALSE}, controllerFails |-> TRUE,
     params |-> {ParamAuthorized(TRUE), ParamName("a")},
     picks |-> {"N4"}, orders |-> {<<"N4">>},
     opts |-> {Options(FALSE, FALSE, FALSE, role) :
                 role \in {"READ_ONLY", "NONE"}}]

InitRoles == InitIn(DomRoles)

NextRoles == NextIn(DomRoles)

SpecRoles == InitRoles /\ [][NextRoles]_vars

\* ------------------------------------------------ notations

\* Notation.id @default(autoincrement()): a number no present row carries
NextNotationId(nt) ==
    CHOOSE x \in 1..(Cardinality(nt) + 1) :
       /\ x \notin {n.id : n \in nt}
       /\ \A y \in 1..(x - 1) : y \in {n.id : n \in nt}

\* the NetworkMemberNotation rows of a notation, as the nodeids they join
LinksOf(d, notationId) == {r.nodeid : r \in {x \in d : notationId \in x.notations}}

\* prisma.notation.upsert on name_nwid, then networkMemberNotation.upsert
\* on notationId_nodeid; the second needs a network_members row of that
\* nodeid (the member relation), and nothing undoes the first when it fails
AddAnotationOp(d, nt, o, in) ==
    IF in.organizationId # NULL /\ ~RoleAtLeastUser(o)
    THEN [db |-> d, notation |-> nt, res |-> "ROLE"]
    ELSE LET found == {n \in nt : n.name = in.name /\ n.nwid = in.nwid}
             label == IF found # {} THEN CHOOSE n \in found : TRUE
                      ELSE [id |-> NextNotationId(nt), name |-> in.name,
                            nwid |-> in.nwid]
             nt2 == nt \cup {label}
         IN  IF \A r \in d : r.nodeid # in.nodeid
             THEN [db |-> d, notation |-> nt2, res |-> "FOREIGN_KEY"]
             ELSE [db |-> {IF r.nodeid = in.nodeid
                           THEN [r EXCEPT !.notations = @ \cup {label.id}]
                           ELSE r : r \in d},
                   notation |-> nt2, res |-> "run"]

\* networkMemberNotation.delete on notationId_nodeid, then notation.delete
\* when findMany finds no other link of the notation
RemoveMemberAnotationsOp(d, nt, o, in) ==
    IF in.organizationId # NULL /\ ~RoleAtLeastUser(o)
    THEN [db |-> d, notation |-> nt, res |-> "ROLE"]
    ELSE IF in.nodeid \notin LinksOf(d, in.notationId)
    THEN [db |-> d, notation |-> nt, res |-> "NOT_FOUND"]
    ELSE LET d2 == {IF r.nodeid = in.nodeid
                    THEN [r EXCEPT !.notations = @ \ {in.notationId}]
                    ELSE r : r \in d}
         IN  [db |-> d2,
              notation |-> IF LinksOf(d2, in.notationId) = {}
                           THEN {n \in nt : n.id # in.notationId}
                           ELSE nt,
              res |-> "run"]

NotationNames == {"x", "y"}

DomNotes ==
    [ids |-> {"m1", "m2"}, nets |-> {"N1"}, orgs |-> {NULL},
     centrals |-> {FALSE}, controllerFails |-> TRUE, params |-> {NoParams},
     picks |-> {"N1"}, orders |-> {<<"N1">>},
     opts |-> {Options(FALSE, FALSE, FALSE, "USER")}]

\* the record of a call on the notation tables
Noted(op, nwid, org, r) ==
    [op |-> op, in |-> Input(NULL, nwid, org, FALSE, NoParams),
     res |-> IF r.res = "run" THEN "ok" ELSE r.res, failed |-> {},
     wrote |-> {}, members |-> {}, zombieMembers |-> {},
     afterStash |-> FALSE]

AddAnotation(D) ==
    \E name \in NotationNames, nwid \in D.nets, org \in D.orgs,
       nodeid \in {r.nodeid : r \in db} :
        LET r == AddAnotationOp(db, notation, opts,
                    [name |-> name, nwid |-> nwid, nodeid |-> nodeid,
                     organizationId |-> org])
        IN  /\ db' = r.db
            /\ notation' = r.notation
            /\ last' = Noted("addAnotation", nwid, org, r)
            /\ UNCHANGED <<zt, opts, pend>>

RemoveMemberAnotations(D) ==
    \E nwid \in D.nets, org \in D.orgs,
       notationId \in 1..Cardinality(NotationNames),
       nodeid \in {r.nodeid : r \in db} :
        LET r == RemoveMemberAnotationsOp(db, notation, opts,
                    [nwid |-> nwid, notationId |-> notationId,
                     nodeid |-> nodeid, organizationId |-> org])
        IN  /\ db' = r.db
            /\ notation' = r.notation
            /\ last' = Noted("removeMemberAnotations", nwid, org, r)
            /\ UNCHANGED <<zt, opts, pend>>

\* two members of one network, no notation yet
InitNotes ==
    /\ opts \in DomNotes.opts
    /\ LET w == AddedTo(AddedTo(World({}, {}), opts, "m1", <<"N1">>),
                        opts, "m2", <<"N1">>)
       IN  db = w.db /\ zt = w.zt
    /\ last = Idle
    /\ pend = {}
    /\ notation = {}

NextNotes ==
    \/ AddAnotation(DomNotes)
    \/ RemoveMemberAnotations(DomNotes)
    \/ Stash(DomNotes)
    \/ Delete(DomNotes)

SpecNotes == InitNotes /\ [][NextNotes]_vars

\* ------------------------------------------------ concurrent updates

\* Update up to and with the member_update call on the edited network
UpdateEnter(w, o, in, env) ==
    LET w1 == checkUserOrganizationRole(w, o, in.organizationId)
        w2 == GlobalRename(w1, o, in, env)
        w3 == ValidatePayload(w2, in)
    IN  member_update(w3, env, in.nwid, in.id, in.central, in.p, "FORBIDDEN")

\* faulty variant: the write compares the row with the one findUnique read
UpdateWrite_Versioned(w, in, found) ==
    LET databaseUpdateData ==
            [f \in in.p.has \cap {"name", "authorized", "description"}
                |-> in.p[f]]
    IN  IF /\ ~in.central
           /\ w.res = "run"
           /\ found # {}
           /\ DOMAIN databaseUpdateData # {}
        THEN IF Rows(w.db, in.id, in.nwid) # found
             THEN [w EXCEPT !.res = "CONFLICT"]
             ELSE DbUpdate(w, in.nwid, Rows(w.db, in.id, in.nwid),
                           databaseUpdateData)
        ELSE w

\* "if (dbMember)" looks at what findUnique read; update({ where: id_nwid })
\* writes the fields of the request into the row as it is by then
UpdateWrite(w, in, found) ==
    LET databaseUpdateData ==
            [f \in in.p.has \cap {"name", "authorized", "description"}
                |-> in.p[f]]
    IN  IF /\ ~in.central
           /\ w.res = "run"
           /\ found # {}
           /\ DOMAIN databaseUpdateData # {}
        THEN DbUpdate(w, in.nwid, Rows(w.db, in.id, in.nwid),
                      databaseUpdateData)
        ELSE w

\* Update from its table write to its return
UpdateLeave(w, in, env, found) ==
    LET w5 == UpdateWrite(w, in, found)
        w6 == throwError(sendWebhook(w5, env, in.organizationId, in.nwid))
    IN  IF "authorized" \in in.p.has /\ ~in.p.authorized
        THEN NotifyAdmins(w6, env, in.organizationId, in.nwid)
        ELSE w6

\* an Update call up to the answer of the controller
UpdateBegin(D) ==
    \E id \in D.ids, nwid \in D.nets, org \in D.orgs, p \in D.params,
       s \in 1..MaxPending :
      \E env \in Envs(D, NULL, 1, 0) :
        LET in == Input(id, nwid, org, FALSE, p)
            w == UpdateEnter(Now, opts, in, env)
        IN  /\ ~\E c \in pend : c.slot = s
            /\ db' = w.db
            /\ zt' = w.zt
            /\ IF w.res = "run"
               THEN /\ pend' = pend \cup {[slot |-> s, in |-> in,
                                            found |-> {}, at |-> "called"]}
                    /\ last' = last
               ELSE /\ pend' = pend
                    /\ last' = Outcome("Update", in, w, {}, {})
            /\ UNCHANGED <<opts, notation>>

\* the findUnique of a call the controller has answered
UpdateFind(D) ==
    \E c \in pend :
        /\ c.at = "called"
        /\ pend' = (pend \ {c}) \cup
                      {[c EXCEPT !.found = Rows(db, c.in.id, c.in.nwid),
                                 !.at = "found"]}
        /\ UNCHANGED <<db, zt, opts, last, notation>>

\* the rest of the call, run on the table as it is by then
UpdateEnd(D) ==
    \E c \in pend :
      \E env \in Envs(D, c.in.organizationId, 0, 1) :
        LET w == UpdateLeave(Now, c.in, env, c.found)
        IN  /\ c.at = "found"
            /\ db' = w.db
            /\ zt' = w.zt
            /\ last' = Outcome("Update", c.in, w, {}, {})
            /\ pend' = pend \ {c}
            /\ UNCHANGED <<opts, notation>>

\* edits of one member of one network by calls that overlap
DomEdit ==
    [ids |-> {"m1"}, nets |-> {"N3"}, orgs |-> {NULL, Org},
     centrals |-> {FALSE}, controllerFails |-> TRUE,
     params |-> {ParamName("a"), ParamName("b"), ParamAuthorized(TRUE),
                 ParamAuthorized(FALSE)},
     picks |-> {"N3"}, orders |-> {<<"N3">>},
     opts |-> {Options(FALSE, FALSE, FALSE, "USER")}]

InitEdit ==
    /\ opts \in DomEdit.opts
    /\ LET w == AddedTo(World({}, {}), opts, "m1", <<"N3">>)
       IN  db = w.db /\ zt = w.zt
    /\ last = Idle
    /\ pend = {}
    /\ notation = {}

NextEdit ==
    \/ UpdateBegin(DomEdit)
    \/ UpdateFind(DomEdit)
    \/ UpdateEnd(DomEdit)

SpecEdit == InitEdit /\ [][NextEdit]_vars

\* ------------------------------------------------ the member list

\* two members of one network: devices that joined on the controller,
\* rows added, stashed, re-added and purged in the database, and the list
\* read in between
DomMerge ==
    [ids |-> {"m1", "m2"}, nets |-> {"N3"}, orgs |-> {NULL},
     centrals |-> {FALSE}, controllerFails |-> FALSE, params |-> {},
     picks |-> {"N3"}, orders |-> {<<"N3">>},
     opts |-> {Options(FALSE, FALSE, FALSE, "USER")}]

InitMerge == InitIn(DomMerge)

NextMerge ==
    \/ Create(DomMerge)
    \/ UpdateDatabaseOnly(DomMerge)
    \/ BulkDeleteStashed(DomMerge)
    \/ ControllerJoin(DomMerge)
    \/ GetNetworkById(DomMerge)

SpecMerge == InitMerge /\ [][NextMerge]_vars

\* ------------------------------------------------ renames with more

\* renames of one member in two personal networks of the session user that
\* carry an authorized flag as well, global naming on
DomCarry ==
    [ids |-> {"m1"}, nets |-> {"N1", "N2"}, orgs |-> {NULL},
     centrals |-> {FALSE}, controllerFails |-> TRUE,
     params |-> {ParamNameAuthorized("a", TRUE),
                 ParamNameAuthorized("b", FALSE), ParamName("a")},
     picks |-> {"N1"}, orders |-> {<<"N1", "N2">>},
     opts |-> {Options(TRUE, FALSE, FALSE, "USER")}]

InitCarry ==
    /\ opts \in DomCarry.opts
    /\ LET w == AddedTo(World({}, {}), opts, "m1", <<"N1", "N2">>)
       IN  db = w.db /\ zt = w.zt
    /\ last = Idle
    /\ pend = {}
    /\ notation = {}

NextCarry ==
    \/ Update(DomCarry)
    \/ UpdateDatabaseOnly(DomCarry)

SpecCarry == InitCarry /\ [][NextCarry]_vars

\* ------------------------------------------------ delete beside stash

\* delete, if (!existingMember?.deleted) { await member_delete }, on what
\* findFirst read
DeleteCall(w, env, in, found) ==
    IF \E r \in found : r.deleted THEN w
    ELSE member_delete(w, env, in.nwid, in.id, in.central)

\* delete from "if (input.central) return" to its end, on what findFirst
\* read and the table as it is by then
DeleteWrite(w, env, in, found) ==
    IF w.res # "run" \/ in.central THEN w
    ELSE IF \E r \in found : r.deleted THEN MarkPermanentlyDeleted(w, env, in)
    ELSE RemoveRow(w, env, in)

\* a delete call up to and with its findFirst
DeleteBegin(D) ==
    \E id \in D.ids, nwid \in D.nets, org \in D.orgs, s \in 1..MaxPending :
        LET in == Input(id, nwid, org, FALSE, NoParams)
            w == checkUserOrganizationRole(Now, opts, org)
        IN  /\ ~\E c \in pend : c.slot = s
            /\ IF w.res = "run"
               THEN /\ pend' = pend \cup {[slot |-> s, in |-> in,
                                            found |-> Rows(db, id, nwid),
                                            at |-> "found"]}
                    /\ last' = last
               ELSE /\ pend' = pend
                    /\ last' = Outcome("delete", in, w, {}, {})
            /\ UNCHANGED <<db, zt, opts, notation>>

\* the controller call of a delete that has read the row
DeleteController(D) ==
    \E c \in pend :
      \E env \in Envs(D, NULL, 1, 0) :
        LET w == DeleteCall(Now, env, c.in, c.found)
        IN  /\ c.at = "found"
            /\ zt' = w.zt
            /\ IF w.res = "run"
               THEN /\ pend' = (pend \ {c}) \cup {[c EXCEPT !.at = "called"]}
                    /\ last' = last
               ELSE /\ pend' = pend \ {c}
                    /\ last' = Outcome("delete", c.in, w, {}, {})
            /\ UNCHANGED <<db, opts, notation>>

\* the table write and the side effects of a delete
DeleteEnd(D) ==
    \E c \in pend :
      \E env \in Envs(D, c.in.organizationId, 0, 1) :
        LET w == DeleteWrite(Now, env, c.in, c.found)
        IN  /\ c.at = "called"
            /\ db' = w.db
            /\ zt' = w.zt
            /\ last' = Outcome("delete", c.in, w, {}, {})
            /\ pend' = pend \ {c}
            /\ UNCHANGED <<opts, notation>>

\* one member of one network, stashed and re-added while deletes are under
\* way
DomGone ==
    [ids |-> {"m1"}, nets |-> {"N3"}, orgs |-> {NULL, Org},
     centrals |-> {FALSE}, controllerFails |-> TRUE, params |-> {},
     picks |-> {"N3"}, orders |-> {<<"N3">>},
     opts |-> {Options(FALSE, FALSE, FALSE, "USER")}]

InitGone ==
    /\ opts \in DomGone.opts
    /\ LET w == AddedTo(World({}, {}), opts, "m1", <<"N3">>)
       IN  db = w.db /\ zt = w.zt
    /\ last = Idle
    /\ pend = {}
    /\ notation = {}

NextGone ==
    \/ DeleteBegin(DomGone)
    \/ DeleteController(DomGone)
    \/ DeleteEnd(DomGone)
    \/ Stash(DomGone)
    \/ Create(DomGone)

SpecGone == InitGone /\ [][NextGone]_vars

\* ------------------------------------------------ concurrent renames

\* Update up to the end of its global rename
UpdatePropagate(w, o, in, env) ==
    GlobalRename(checkUserOrganizationRole(w, o, in.organizationId), o, in,
                 env)

\* Update from the payload loop to the member_update on the edited network
UpdateCall(w, in, env) ==
    member_update(ValidatePayload(w, in), env, in.nwid, in.id, in.central,
                  in.p, "FORBIDDEN")

\* an Update call up to the end of its fan-out
UpdateFanout(D) ==
    \E id \in D.ids, nwid \in D.nets, org \in D.orgs, p \in D.params,
       s \in 1..MaxPending :
      \E env \in Envs(D, NULL, Cardinality(D.nets), 0) :
        LET in == Input(id, nwid, org, FALSE, p)
            w == UpdatePropagate(Now, opts, in, env)
        IN  /\ ~\E c \in pend : c.slot = s
            /\ db' = w.db
            /\ zt' = w.zt
            /\ IF w.res = "run"
               THEN /\ pend' = pend \cup {[slot |-> s, in |-> in,
                                            found |-> {}, at |-> "renamed"]}
                    /\ last' = last
               ELSE /\ pend' = pend
                    /\ last' = Outcome("Update", in, w, {}, {})
            /\ UNCHANGED <<opts, notation>>

\* the controller call on the edited network of a call that has fanned out
UpdateMain(D) ==
    \E c \in pend :
      \E env \in Envs(D, NULL, 1, 0) :
        LET w == UpdateCall(Now, c.in, env)
        IN  /\ c.at = "renamed"
            /\ zt' = w.zt
            /\ IF w.res = "run"
               THEN /\ pend' = (pend \ {c}) \cup {[c EXCEPT !.at = "called"]}
                    /\ last' = last
               ELSE /\ pend' = pend \ {c}
                    /\ last' = Outcome("Update", c.in, w, {}, {})
            /\ UNCHANGED <<db, opts, notation>>

\* renames of one member from two personal networks of the session user,
\* global naming on, by calls that overlap
DomTwo ==
    [ids |-> {"m1"}, nets |-> {"N1", "N2"}, orgs |-> {NULL},
     centrals |-> {FALSE}, controllerFails |-> FALSE,
     params |-> {ParamName("a"), ParamName("b")},
     picks |-> {"N1"}, orders |-> {<<"N1", "N2">>},
     opts |-> {Options(TRUE, FALSE, FALSE, "USER")}]

InitTwo ==
    /\ opts \in DomTwo.opts
    /\ LET w == AddedTo(World({}, {}), opts, "m1", <<"N1", "N2">>)
       IN  db = w.db /\ zt = w.zt
    /\ last = Idle
    /\ pend = {}
    /\ notation = {}

NextTwo ==
    \/ UpdateFanout(DomTwo)
    \/ UpdateMain(DomTwo)
    \/ UpdateFind(DomTwo)
    \/ UpdateEnd(DomTwo)

SpecTwo == InitTwo /\ [][NextTwo]_vars

\* ------------------------------------------------ the lifecycle alone

\* one member of one network under create, Update, stash, delete and
\* bulkDeleteStashed, and the device joining on the controller
DomLife ==
    [ids |-> {"m1"}, nets |-> {"N3"}, orgs |-> {NULL, Org},
     centrals |-> {FALSE}, controllerFails |-> TRUE,
     params |-> {ParamAuthorized(TRUE), ParamAuthorized(FALSE)},
     picks |-> {"N3"}, orders |-> {<<"N3">>},
     opts |-> {Options(FALSE, FALSE, FALSE, "USER")}]

InitLife == InitIn(DomLife)

NextLife ==
    \/ Create(DomLife)
    \/ Update(DomLife)
    \/ Stash(DomLife)
    \/ Delete(DomLife)
    \/ BulkDeleteStashed(DomLife)
    \/ ControllerJoin(DomLife)

SpecLife == InitLife /\ [][NextLife]_vars

\* ------------------------------------------------ re-adding

\* one named member of one network, stashed and re-added, global naming
\* off, "Add Member ID as Name" on or off
DomReadd ==
    [ids |-> {"m1"}, nets |-> {"N3"}, orgs |-> {NULL, Org},
     centrals |-> {FALSE}, controllerFails |-> FALSE,
     params |-> {ParamName("a")},
     picks |-> {"N3"}, orders |-> {<<"N3">>},
     opts |-> {Options(FALSE, a, FALSE, "USER") : a \in BOOLEAN}]

InitReadd == InitIn(DomReadd)

NextReadd ==
    \/ Create(DomReadd)
    \/ Update(DomReadd)
    \/ Stash(DomReadd)
    \/ Delete(DomReadd)

SpecReadd == InitReadd /\ [][NextReadd]_vars

\* ------------------------------------------------ the two reads

\* ztController.member_details: the record the controller holds
member_details(z, id, nwid) == ZtRows(z, id, nwid)

\* networkMemberRouter.getMemberById on a local network:
\* { ...dbMember, ...ztMembers }
GetMemberByIdOp(d, z, id, nwid) ==
    {IF Rows(d, id, nwid) = {} THEN m ELSE Spread(RowOf(d, id, nwid), m)
       : m \in member_details(z, id, nwid)}

\* networkMemberRouter.getMemberById: a read
GetMemberById(D) ==
    \E id \in D.ids, nwid \in D.nets :
        LET in == Input(id, nwid, NULL, FALSE, NoParams)
            w == IF member_details(zt, id, nwid) = {}
                 THEN Throw(Now, "INTERNAL_SERVER_ERROR") ELSE Now
        IN  /\ last' = Outcome("getMemberById", in, w,
                               GetMemberByIdOp(db, zt, id, nwid), {})
            /\ UNCHANGED <<db, zt, opts, pend, notation>>

\* one member of one network, edited before and after it is added, and
\* read both ways
DomRead ==
    [ids |-> {"m1"}, nets |-> {"N3"}, orgs |-> {NULL},
     centrals |-> {FALSE}, controllerFails |-> FALSE,
     params |-> {ParamAuthorized(TRUE), ParamName("a")},
     picks |-> {"N3"}, orders |-> {<<"N3">>},
     opts |-> {Options(FALSE, a, FALSE, "USER") : a \in BOOLEAN}]

InitRead == InitIn(DomRead)

NextRead ==
    \/ Create(DomRead)
    \/ Update(DomRead)
    \/ ControllerJoin(DomRead)
    \/ GetNetworkById(DomRead)
    \/ GetMemberById(DomRead)

SpecRead == InitRead /\ [][NextRead]_vars

\* ------------------------------------------------ properties

MemberOps ==
    {"create", "Update", "Tags", "UpdateDatabaseOnly", "stash", "delete",
     "bulkDeleteStashed"}

\* the row of the member the last call named, in table d
LastRows(d) == Rows(d, last.in.id, last.in.nwid)

\* organizationId is left out, or the caller holds USER in the organization
Permitted(o, org) == org = NULL \/ RoleAtLeastUser(o)

\* the worlds the member mutations end in when the session user calls them
\* for member id of network nwid with organizationId org, for every request
\* of domain D and every outcome of the collaborators
MutationEnds(D, id, nwid, org) ==
    LET in(c, p) == Input(id, nwid, org, c, p)
        envs == Envs(D, org, Cardinality(D.nets), 2)
    IN  UNION {
          {CreateOp(Now, opts, in(c, NoParams), env),
           TagsOp(Now, opts, in(c, [NoParams EXCEPT !.has = {"tags"},
                                                    !.tags = {1}]), env),
           StashOp(Now, opts, in(FALSE, NoParams), env),
           DeleteOp(Now, opts, in(c, NoParams), env),
           BulkDeleteStashedOp(Now, opts, in(FALSE, NoParams), env)}
          \cup {UpdateOp(Now, opts, in(c, p), env) : p \in D.params}
          \cup {UpdateDatabaseOnlyOp(Now, opts, in(FALSE, ParamDeleted(b)), env)
                  : b \in BOOLEAN}
          : c \in D.centrals, env \in envs}

\* the call that ended in w was rejected and wrote nothing
RejectedUnchanged(w) ==
    /\ w.res # "run"
    /\ w.db = db
    /\ w.zt = zt
    /\ Wrote(w) = {}
    /\ CountKind(w.ev, ZtKinds) = 0

\* C1: the members list getNetworkById returns for a network
\* holds no member whose row in that network has permanentlyDeleted = true
C1_MembersHoldNoPermanentlyDeleted ==
    last.op = "getNetworkById" =>
        \A m \in last.members :
            ~\E r \in db : /\ r.nwid = last.in.nwid
                           /\ r.id = m.id
                           /\ r.permanentlyDeleted

\* C2 (as claimed): once a row has permanentlyDeleted = true, every later
\* step keeps the row and keeps permanentlyDeleted = true
C2_PermanentlyDeletedIsTerminal ==
    [][\A r \in db : r.permanentlyDeleted =>
          \E x \in db' : x.id = r.id /\ x.nwid = r.nwid /\ x.permanentlyDeleted]_vars

\* C2 (amended): a row with permanentlyDeleted = true keeps the flag and
\* stays through every step, except that create (the re-add) of that member
\* resets the flag and that delete removes the row when its deleted flag
\* has been set back to false
C2_PermanentlyDeletedUntilReadd ==
    [][\A r \in db : r.permanentlyDeleted =>
          \/ \E x \in db' : /\ x.id = r.id /\ x.nwid = r.nwid
                            /\ x.permanentlyDeleted
          \/ /\ last'.in.id = r.id
             /\ last'.in.nwid = r.nwid
             /\ \/ last'.op = "create"
                \/ last'.op = "delete" /\ ~r.deleted]_vars

\* C2 witness: stash has run on a permanently deleted row, which still is
C2_Witness ==
    /\ last.op = "stash"
    /\ last.res = "ok"
    /\ \E r \in LastRows(db) : r.permanentlyDeleted

\* C3: on a non-central network a delete that follows a stash of the same
\* member leaves the row with deleted = true and permanentlyDeleted = true,
\* and a delete the controller accepts of a member whose row has
\* deleted = false leaves no row for (id, nwid)
C3_StashThenDeleteKeepsRow ==
    [][(last'.op = "delete" /\ ~last'.in.central /\ last'.res # "ROLE") =>
          LET id == last'.in.id
              nwid == last'.in.nwid
          IN  /\ (/\ last.op = "stash" /\ last.res # "ROLE"
                  /\ last.in.id = id /\ last.in.nwid = nwid
                  /\ HasRow(db, id, nwid))
                 => /\ HasRow(db', id, nwid)
                    /\ \A r \in Rows(db', id, nwid) :
                          r.deleted /\ r.permanentlyDeleted
              /\ (/\ HasRow(db, id, nwid)
                  /\ ~RowOf(db, id, nwid).deleted
                  /\ "zt_delete" \notin last'.failed)
                 => ~HasRow(db', id, nwid)]_vars

\* C3 witness: a delete right after a stash has left a permanently deleted row
C3_Witness ==
    /\ last.op = "delete"
    /\ last.afterStash
    /\ last.res = "ok"
    /\ \E r \in LastRows(db) : r.deleted /\ r.permanentlyDeleted

\* C5 (as claimed): only create turns the deleted flag of a row from true
\* to false
C5_OnlyCreateUnstashes ==
    [][\A r \in db :
          (r.deleted /\ \E x \in db' : x.nodeid = r.nodeid /\ ~x.deleted)
          => last'.op = "create"]_vars

\* C5 (amended): only create and UpdateDatabaseOnly called with
\* updateParams.deleted = false turn the deleted flag of a row from true to
\* false; Update, Tags, stash, delete, bulkDeleteStashed and the read
\* getNetworkById never do
C5_OnlyExplicitCallsUnstash ==
    [][\A r \in db :
          (r.deleted /\ \E x \in db' : x.nodeid = r.nodeid /\ ~x.deleted)
          => /\ last'.in.id = r.id
             /\ last'.in.nwid = r.nwid
             /\ \/ last'.op = "create"
                \/ /\ last'.op = "UpdateDatabaseOnly"
                   /\ "deleted" \in last'.in.p.has
                   /\ ~last'.in.p.deleted]_vars

\* C5 witness: Update has gone through on a stashed row, which still is
C5_Witness ==
    /\ last.op = "Update"
    /\ last.res = "ok"
    /\ ~last.in.central
    /\ \E r \in LastRows(db) : r.deleted /\ ~r.permanentlyDeleted

\* C6: stash asks the controller to de-authorize the member (authorized =
\* false, ipAssignments, tags and capabilities empty) before it writes
\* deleted = true; when the controller call fails, stash returns no
\* controller error and the row is still marked deleted = true
C6_StashDeauthorizesBeforeMarking ==
    \A id \in Dom.ids, nwid \in Dom.nets, org \in Dom.orgs :
      \A env \in Envs(Dom, org, 1, 2) :
        LET in == Input(id, nwid, org, FALSE, NoParams)
            w == StashOp(Now, opts, in, env)
            deauth == {i \in 1..Len(w.ev) :
                         /\ w.ev[i].k = "zt_update"
                         /\ w.ev[i].n = nwid
                         /\ w.ev[i].p.has = {"authorized", "ipAssignments",
                                             "tags", "capabilities"}
                         /\ ~w.ev[i].p.authorized
                         /\ w.ev[i].p.ipAssignments = {}
                         /\ w.ev[i].p.tags = {}
                         /\ w.ev[i].p.capabilities = {}}
            marks == {i \in 1..Len(w.ev) :
                        /\ w.ev[i].k = "db_update"
                        /\ "deleted" \in w.ev[i].p.has}
        IN  Permitted(opts, org) =>
              /\ deauth # {}
              /\ marks # {}
              /\ \A i \in deauth, j \in marks : i < j
              /\ \A r \in Rows(w.db, id, nwid) : r.deleted
              /\ w.res \in {"run", "WEBHOOK_FAILED"}
              /\ (w.res = "WEBHOOK_FAILED" => "webhook" \in Failed(w))

\* C6 witness: stash has returned ok although the controller call failed,
\* and the row is marked
C6_Witness ==
    /\ last.op = "stash"
    /\ last.res = "ok"
    /\ "zt_update" \in last.failed
    /\ \E r \in LastRows(db) : r.deleted

C10_SideEffectFailuresAreNotReturned ==
    (/\ last.op \in MemberOps
     /\ last.failed # {}
     /\ last.failed \subseteq {"webhook", "notify"})
    => last.res = "ok"

\* C10 witness: create of a new member has returned an error because its
\* webhook delivery failed, and no row was inserted
C10_Witness ==
    /\ last.op = "create"
    /\ last.failed = {"webhook"}
    /\ last.res = "WEBHOOK_FAILED"
    /\ LastRows(db) = {}

\* C4: create of a member whose row is stashed (deleted = true,
\* permanentlyDeleted = false) returns ok, sets deleted = false on that row
\* and inserts no row; and whatever create calls overlap, the table holds at
\* most one row per (id, nwid)
C4_ReaddKeepsOneRow ==
    /\ \A r1 \in db, r2 \in db :
          (r1.id = r2.id /\ r1.nwid = r2.nwid) => r1 = r2
    /\ \A id \in DomRace.ids, nwid \in DomRace.nets, org \in DomRace.orgs :
         \A env \in Envs(DomRace, org, 0, 1) :
           LET in == Input(id, nwid, org, FALSE, NoParams)
               w == CreateOp(Now, opts, in, env)
           IN  (/\ Permitted(opts, org)
                /\ \E r \in Rows(db, id, nwid) :
                      r.deleted /\ ~r.permanentlyDeleted)
               => /\ w.res = "run"
                  /\ {r.nodeid : r \in w.db} = {r.nodeid : r \in db}
                  /\ \A r \in Rows(w.db, id, nwid) : ~r.deleted
                  /\ \A i \in 1..Len(w.ev) : w.ev[i].k # "db_create"

\* C4 witness: a create that followed a stash has returned ok and the one
\* row of the member is active again, while another create is under way
C4_Witness ==
    /\ last.op = "create"
    /\ last.afterStash
    /\ last.res = "ok"
    /\ last.wrote = {"db_update"}
    /\ pend # {}
    /\ \E r \in LastRows(db) : ~r.deleted

\* C8: bulkDeleteStashed(nwid) sets permanentlyDeleted = true on exactly the
\* rows of nwid that have deleted = true and changes nothing else (no other
\* row, no other field, nothing on the controller), and a second run right
\* after it changes no row
C8_BulkMarksExactlyTheStashed ==
    \A nwid \in DomBulk.nets, org \in {NULL, Org} :
      \A env \in Envs(DomBulk, org, 0, 1) :
        LET in == Input(NULL, nwid, org, FALSE, NoParams)
            w == BulkDeleteStashedOp(Now, opts, in, env)
            expected ==
                {IF r.nwid = nwid /\ r.deleted
                 THEN [r EXCEPT !.permanentlyDeleted = TRUE] ELSE r : r \in db}
        IN  /\ w.zt = zt
            /\ IF BulkAccess(Now, opts, in).res = "run"
               THEN w.res = "run" /\ w.db = expected
               ELSE w.db = db
            /\ \A env2 \in Envs(DomBulk, org, 0, 1) :
                  BulkDeleteStashedOp(World(w.db, w.zt), opts, in, env2).db
                  = w.db

\* C8 witness: bulkDeleteStashed has marked a stashed row of its network
\* while that network holds an active row and another network holds a
\* stashed row that is not marked
C8_Witness ==
    /\ last.op = "bulkDeleteStashed"
    /\ last.res = "ok"
    /\ last.wrote = {"db_update"}
    /\ \E r \in db : r.nwid = last.in.nwid /\ r.deleted /\ r.permanentlyDeleted
    /\ \E r \in db : r.nwid = last.in.nwid /\ ~r.deleted /\ ~r.permanentlyDeleted
    /\ \E r \in db : r.nwid # last.in.nwid /\ r.deleted /\ ~r.permanentlyDeleted

\* networks n and nwid have the same owner: the same organization, or no
\* organization and the same author
SameScope(n, nwid) ==
    /\ organizationId(n) = organizationId(nwid)
    /\ organizationId(nwid) = NULL => authorId(n) = authorId(nwid)

\* what C9 says of an Update of member id of network nwid to name nm, by a
\* caller who names the network's organization
RenameReachesTheScope(id, nwid, nm) ==
    LET org == organizationId(nwid)
        global == IF org = NULL THEN opts.renameNodeGlobally
                  ELSE opts.orgRenameNodeGlobally
        in == Input(id, nwid, org, FALSE, ParamName(nm))
    IN  \A env \in Envs(DomRename, org, Cardinality(DomRename.nets), 1) :
          LET w == UpdateOp(Now, opts, in, env)
          IN  w.res = "run" =>
                /\ \A r \in Rows(w.db, id, nwid) : r.name = nm
                /\ \A r \in db :
                     (r.id = id /\ r.nwid # nwid) =>
                        IF global /\ ~r.deleted /\ SameScope(r.nwid, nwid)
                        THEN /\ \E x \in w.db : /\ x.nodeid = r.nodeid
                                                /\ x.name = nm
                             /\ \E m \in ZtRows(w.zt, id, r.nwid) : m.name = nm
                        ELSE /\ r \in w.db
                             /\ ZtRows(w.zt, id, r.nwid) = ZtRows(zt, id, r.nwid)

\* C9: for every name Update accepts, an Update of member m in
\* network N renames only N's record when the global-naming setting of N's
\* scope is off; when it is on, every other record of m that is not stashed
\* and lies in a network of N's scope gets the name on the controller and in
\* the database, and no stashed record and no record of another scope changes
C9_RenameReachesTheScope ==
    \A id \in DomRename.ids, nwid \in DomRename.nets, nm \in Names :
        RenameReachesTheScope(id, nwid, nm)

\* C9 witness: with global naming on, an Update to the empty name has
\* returned ok and another active record of the member in a network of the
\* same scope still carries another name
C9_Witness ==
    /\ last.op = "Update"
    /\ last.res = "ok"
    /\ last.in.p.name = ""
    /\ last.in.organizationId = organizationId(last.in.nwid)
    /\ IF last.in.organizationId = NULL THEN opts.renameNodeGlobally
       ELSE opts.orgRenameNodeGlobally
    /\ \E r \in db : /\ r.id = last.in.id
                     /\ r.nwid # last.in.nwid
                     /\ SameScope(r.nwid, last.in.nwid)
                     /\ ~r.deleted
                     /\ r.name # ""

\* C1 witness: getNetworkById has left out a member the controller holds
\* whose row is stashed and permanently deleted
C1_Witness ==
    /\ last.op = "getNetworkById"
    /\ last.res = "ok"
    /\ \E r \in db : /\ r.nwid = last.in.nwid
                     /\ r.deleted /\ r.permanentlyDeleted
                     /\ ZtRows(zt, r.id, r.nwid) # {}
                     /\ \A m \in last.members : m.id # r.id

\* C11: an Update whose ipAssignments hold an entry that is no IP address
\* is rejected and changes no member row of any network and no member
\* record of the controller, whether or not it carries a name and global
\* naming is on
C11_InvalidIpChangesNothing ==
    \A id \in DomFanout.ids, nwid \in DomFanout.nets,
       p \in {ParamNameIps("b", BadIps),
              [NoParams EXCEPT !.has = {"ipAssignments"},
                               !.ipAssignments = BadIps]} :
      \A env \in Envs(DomFanout, NULL, Cardinality(DomFanout.nets), 1) :
        LET in == Input(id, nwid, NULL, FALSE, p)
            w == UpdateOp(Now, opts, in, env)
        IN  /\ w.res # "run"
            /\ w.db = db
            /\ w.zt = zt

\* C11 witness: an Update with a name and an invalid ipAssignments entry has
\* been rejected with BAD_REQUEST after it wrote to the table
C11_Witness ==
    /\ last.op = "Update"
    /\ last.res = "BAD_REQUEST"
    /\ "name" \in last.in.p.has
    /\ last.in.p.ipAssignments = BadIps
    /\ "db_update" \in last.wrote

\* C12: when organizationId is given and the caller's role in that
\* organization is below USER, every member mutation is rejected before any
\* write to the table or the controller
C12_BelowUserIsRejected ==
    ~RoleAtLeastUser(opts) =>
       \A id \in DomRoles.ids, nwid \in DomRoles.nets :
          \A w \in MutationEnds(DomRoles, id, nwid, Org) : RejectedUnchanged(w)

\* C12 witness: a READ_ONLY member of the organization has called
\* bulkDeleteStashed with organizationId on a network that holds a stashed row
C12_Witness ==
    /\ opts.role = "READ_ONLY"
    /\ last.op = "bulkDeleteStashed"
    /\ last.in.organizationId = Org
    /\ last.res = "ok"
    /\ last.wrote = {"db_update"}
    /\ \E r \in db : r.nwid = last.in.nwid /\ r.permanentlyDeleted

\* C13: a user who is neither the author of a network nor a member of the
\* organization that owns it gets every member mutation on that network
\* rejected, with or without organizationId, and the rows and controller
\* records stay as they are
C13_StrangerIsRejected ==
    opts.role = "NONE" =>
       \A id \in DomRoles.ids, nwid \in DomRoles.nets, org \in DomRoles.orgs :
          authorId(nwid) # SessionUser =>
             \A w \in MutationEnds(DomRoles, id, nwid, org) :
                RejectedUnchanged(w)

\* C13 witness: a user who is no member of the organization and not the
\* author has stashed a member of the network by a call without
\* organizationId
C13_Witness ==
    /\ opts.role = "NONE"
    /\ authorId(last.in.nwid) # SessionUser
    /\ last.op = "stash"
    /\ last.in.organizationId = NULL
    /\ last.res = "ok"
    /\ "db_update" \in last.wrote
    /\ \E r \in LastRows(db) : r.deleted

\* the worlds Update, Tags and delete end in when called for member id of
\* network nwid in the fan-out domain, each with the network of the
\* controller call that failed, if one did
FanoutEnds(id, nwid) ==
    LET in(p) == Input(id, nwid, NULL, FALSE, p)
        envs == Envs(DomFanout, NULL, Cardinality(DomFanout.nets), 1)
    IN  UNION {{UpdateOp(Now, opts, in(ParamName("b")), env),
                TagsOp(Now, opts, in([NoParams EXCEPT !.has = {"tags"},
                                                      !.tags = {1}]), env),
                DeleteOp(Now, opts, in(NoParams), env)} : env \in envs}

\* the controller calls of w that failed
FailedCalls(w) ==
    {i \in 1..Len(w.ev) : w.ev[i].k \in ZtKinds /\ ~w.ev[i].ok}

\* C14 (as claimed): outside stash and delete of a stashed member, every
\* controller failure during a member operation reaches the caller as
\* FORBIDDEN, be it Update's call on the edited network, a call of the
\* global-rename fan-out or delete of an active member
C14_ControllerFailureIsForbidden ==
    \A id \in DomFanout.ids, nwid \in DomFanout.nets :
       \A w \in FanoutEnds(id, nwid) :
          FailedCalls(w) # {} => w.res = "FORBIDDEN"

\* C14 (amended): a controller failure of the call on the edited network in
\* Update or Tags reaches the caller as FORBIDDEN; a controller failure
\* during the global-rename fan-out or in delete of an active member
\* reaches the caller as the error the controller client threw
C14_OnlyTheEditedNetworkIsForbidden ==
    \A id \in DomFanout.ids, nwid \in DomFanout.nets :
       \A w \in FanoutEnds(id, nwid) :
          \A i \in FailedCalls(w) :
             /\ i = Len(w.ev)
             /\ w.res = IF w.ev[i].k = "zt_update" /\ w.ev[i].n = nwid
                        THEN "FORBIDDEN" ELSE "INTERNAL_SERVER_ERROR"

\* C14 witness: an Update has ended with the controller client's error
\* after a controller call of its fan-out failed
C14_Witness ==
    /\ last.op = "Update"
    /\ last.failed = {"zt_update"}
    /\ last.res = "INTERNAL_SERVER_ERROR"

\* C15: every notation row is referenced by at least one member link
C15_NoNotationWithoutLink ==
    \A n \in notation : LinksOf(db, n.id) # {}

\* a notation lost its last link to the delete of its member
C15_Witness ==
    /\ last.op = "delete"
    /\ last.res = "ok"
    /\ "db_delete" \in last.wrote
    /\ \E n \in notation : LinksOf(db, n.id) = {}

\* removeMemberAnotations alone never leaves a notation without a link
C15_RemoveCollectsTheNotation ==
    \A org \in {NULL, Org}, notationId \in 1..Cardinality(NotationNames),
       nodeid \in {r.nodeid : r \in db} :
        LET r == RemoveMemberAnotationsOp(db, notation, opts,
                    [nwid |-> "N1", notationId |-> notationId,
                     nodeid |-> nodeid, organizationId |-> org])
        IN  \A n \in r.notation :
               LinksOf(db, n.id) # {} => LinksOf(r.db, n.id) # {}

\* the fields of the row that a request stores
StoredBy(in) == [f \in in.p.has \cap {"name", "authorized", "description"}
                |-> in.p[f]]

\* C16: of two Update calls that overlap on one member of one network,
\* neither gets a conflict error, and each table write puts the values of
\* its request into the row as it is by then, so the row ends with the
\* values of the write that came last
C16_LastWriteWins ==
    [][\A c \in pend :
          (c.at = "found" /\ pend' = pend \ {c}) =>
             /\ last'.res \notin {"CONFLICT", "NOT_FOUND"}
             /\ last'.wrote = {"db_update"}
             /\ db' = {Written(r, StoredBy(c.in)) : r \in db}]_vars

\* a call wrote its name while another call, which asked for another name
\* and was answered by the controller afterwards, has yet to write
C16_Witness ==
    /\ last.op = "Update"
    /\ last.res = "ok"
    /\ last.wrote = {"db_update"}
    /\ "name" \in last.in.p.has
    /\ \E c \in pend, r \in db, z \in zt :
          /\ c.at = "found"
          /\ "name" \in c.in.p.has
          /\ c.in.p.name # last.in.p.name
          /\ r.name = last.in.p.name
          /\ z.name = c.in.p.name

\* the ids of a set of member records
IdsOf(ms) == {m.id : m \in ms}

\* what the merge can be handed for network nwid at this state
Reports(nwid) ==
    {syncMemberPeersAndStatus(seen, status) :
        seen \in Reportable(zt, nwid), status \in Statuses}

\* C17: the ids of members are the ids of the network's rows with
\* deleted = false together with the reported ids that have no row in the
\* network and are not permanently deleted, one record per id; a row with
\* deleted = false is listed whether or not the controller reports it
C17_MembersAreActiveRowsAndNewDevices ==
    \A nwid \in DomMerge.nets :
       \A reported \in Reports(nwid) :
          LET rows == {r \in db : r.nwid = nwid}
              members == MergedMembers(db, nwid, reported)
          IN  /\ IdsOf(members) =
                    IdsOf({r \in rows : ~r.deleted}) \cup
                    {i \in IdsOf(reported) :
                        /\ i \notin IdsOf(rows)
                        /\ i \notin IdsOf({r \in rows : r.permanentlyDeleted})}
              /\ Cardinality(members) = Cardinality(IdsOf(members))

\* getNetworkById listed a row the controller did not report next to a
\* device that has no row
C17_Witness ==
    /\ last.op = "getNetworkById"
    /\ last.res = "ok"
    /\ \E m \in last.members :
          /\ "nodeid" \in DOMAIN m
          /\ "conStatus" \notin DOMAIN m
    /\ \E m \in last.members :
          /\ "nodeid" \notin DOMAIN m
          /\ \A r \in db : r.id # m.id

\* C18: zombieMembers is exactly the network's rows with deleted = true and
\* permanentlyDeleted = false; members holds no id of a row with
\* deleted = true, and no id is in both lists
C18_ZombiesApartFromMembers ==
    \A nwid \in DomMerge.nets :
       \A reported \in Reports(nwid) :
          LET rows == {r \in db : r.nwid = nwid}
              members == MergedMembers(db, nwid, reported)
              zombieMembers == ZombieMembers(db, nwid)
          IN  /\ zombieMembers =
                    {r \in rows : r.deleted /\ ~r.permanentlyDeleted}
              /\ IdsOf(members) \cap IdsOf({r \in rows : r.deleted}) = {}
              /\ IdsOf(members) \cap IdsOf(zombieMembers) = {}

\* getNetworkById answered for a network with a stashed row, a row that is
\* deleted for good, both reported by the controller, and neither is in
\* members
C18_Witness ==
    /\ last.op = "getNetworkById"
    /\ last.res = "ok"
    /\ last.zombieMembers # {}
    /\ \E r \in db : /\ r.deleted /\ r.permanentlyDeleted
                     /\ r \notin last.zombieMembers
                     /\ ZtRows(zt, r.id, r.nwid) # {}
    /\ \A r \in last.zombieMembers :
          /\ ZtRows(zt, r.id, r.nwid) # {}
          /\ r.id \notin IdsOf(last.members)

\* C19: the merged record of a member with a row with deleted = false that
\* the controller reports has name and authorized of the row and
\* physicalAddress and connection status of the controller's record
C19_ControllerWinsForObservedFields ==
    \A nwid \in DomMerge.nets :
       \A reported \in Reports(nwid) :
          \A r \in {x \in db : x.nwid = nwid /\ ~x.deleted}, c \in reported :
             c.id = r.id =>
                \E m \in MergedMembers(db, nwid, reported) :
                   /\ m.id = r.id
                   /\ m.name = r.name
                   /\ m.authorized = r.authorized
                   /\ m.conStatus = c.conStatus
                   /\ m.physicalAddress = c.physicalAddress

\* getNetworkById returned a member that the controller sees connected from
\* an address, with the empty physicalAddress of its row
C19_Witness ==
    /\ last.op = "getNetworkById"
    /\ last.res = "ok"
    /\ \E m \in last.members :
          /\ "nodeid" \in DOMAIN m
          /\ "conStatus" \in DOMAIN m
          /\ m.conStatus = "direct"
          /\ m.physicalAddress = NULL

\* the fields the row has no column for come from the controller's record,
\* every column of the row from the row
C19_RowWinsForEveryColumn ==
    \A nwid \in DomMerge.nets :
       \A reported \in Reports(nwid) :
          \A r \in {x \in db : x.nwid = nwid /\ ~x.deleted}, c \in reported :
             c.id = r.id =>
                \E m \in MergedMembers(db, nwid, reported) :
                   /\ m.id = r.id
                   /\ \A f \in DOMAIN r : m[f] = r[f]
                   /\ \A f \in DOMAIN c \ DOMAIN r : m[f] = c[f]

\* C20: the fan-out of a global rename goes through the affected networks
\* one after another and undoes nothing: when the controller fails for one
\* of them, the networks before it are renamed on controller and table, that
\* network, the ones after it and the edited network are as they were, and
\* Update fails
C20_FanoutStopsWithoutRollback ==
    \A id \in DomFanout.ids, nwid \in DomFanout.nets :
      \A env \in Envs(DomFanout, NULL, Cardinality(DomFanout.nets), 1) :
        LET in == Input(id, nwid, NULL, FALSE, ParamName("b"))
            w == UpdateOp(Now, opts, in, env)
            Affected(n) == n \in NetworksWithMember(db, in)
            order == SelectSeq(env.order, Affected)
            failed == {w.ev[i].n : i \in FailedCalls(w)}
            done == {w.ev[i].n : i \in {j \in 1..Len(w.ev) :
                                          /\ w.ev[j].k = "zt_update"
                                          /\ w.ev[j].ok}}
        IN  (failed # {} /\ nwid \notin failed) =>
               /\ w.res # "run"
               /\ \E k \in 1..Len(order) :
                     /\ failed = {order[k]}
                     /\ done = {order[j] : j \in 1..(k - 1)}
               /\ \A n \in done :
                     /\ Rows(w.db, id, n) # {}
                     /\ \A r \in Rows(w.db, id, n) : r.name = "b"
                     /\ \A m \in ZtRows(w.zt, id, n) : m.name = "b"
               /\ \A n \in Networks \ done :
                     /\ Rows(w.db, id, n) = Rows(db, id, n)
                     /\ ZtRows(w.zt, id, n) = ZtRows(zt, id, n)

\* an Update failed in its fan-out after it had renamed the member in
\* another network, and the member keeps its old name in the edited network
\* and in a third one
C20_Witness ==
    /\ last.op = "Update"
    /\ last.failed = {"zt_update"}
    /\ last.res = "INTERNAL_SERVER_ERROR"
    /\ "db_update" \in last.wrote
    /\ \E r1, r2, r3 \in db :
          /\ r1.nwid # last.in.nwid /\ r1.name = last.in.p.name
          /\ r2.nwid = last.in.nwid /\ r2.name # last.in.p.name
          /\ r3.nwid \notin {r1.nwid, r2.nwid} /\ r3.name # last.in.p.name
          /\ \A z \in ZtRows(zt, r3.id, r3.nwid) : z.name # last.in.p.name

\* the worlds create, Update, stash, delete and bulkDeleteStashed end in
\* when called for member id of network nwid with organizationId org
LifecycleEnds(D, id, nwid, org) ==
    LET in(c, p) == Input(id, nwid, org, c, p)
        envs == Envs(D, org, Cardinality(D.nets), 2)
    IN  UNION {
          {CreateOp(Now, opts, in(c, NoParams), env),
           StashOp(Now, opts, in(FALSE, NoParams), env),
           DeleteOp(Now, opts, in(c, NoParams), env),
           BulkDeleteStashedOp(Now, opts, in(FALSE, NoParams), env)}
          \cup {UpdateOp(Now, opts, in(c, p), env) : p \in D.params}
          : c \in D.centrals, env \in envs}

\* the places in the effects of a call where a webhook or an admin
\* notification was attempted, and those of its table writes
SideEffectsAt(w) ==
    {i \in 1..Len(w.ev) : w.ev[i].k \in {"webhook", "notify"}}

WritesAt(w) ==
    {i \in 1..Len(w.ev) : w.ev[i].k \in {"db_create", "db_update", "db_delete"}}

\* C21: in create, Update, stash, delete and bulkDeleteStashed no webhook
\* and no admin notification is attempted before a table write of the same
\* call: every table write of the call comes first
C21_SideEffectsFollowTheWrite ==
    \A id \in Dom.ids, nwid \in Dom.nets, org \in Dom.orgs :
       \A w \in LifecycleEnds(Dom, id, nwid, org) :
          \A i \in SideEffectsAt(w), j \in WritesAt(w) : j < i

\* create with organizationId has inserted the row of a member that had
\* none: its NETWORK_JOIN webhook went out before the insert
C21_Witness ==
    /\ last.op = "create"
    /\ last.in.organizationId = Org
    /\ ~last.in.central
    /\ last.res = "ok"
    /\ last.wrote = {"db_create"}
    /\ last.failed = {}

\* apart from the insert of create and the deleted = true of stash every
\* table write of these calls comes before their webhooks and notifications
C21_OnlyInsertAndMarkComeLate ==
    \A id \in Dom.ids, nwid \in Dom.nets, org \in Dom.orgs :
       \A w \in LifecycleEnds(Dom, id, nwid, org) :
          \A i \in SideEffectsAt(w), j \in WritesAt(w) :
             \/ j < i
             \/ w.ev[j].k = "db_create"
             \/ w.ev[j].p.has = {"deleted"}

\* C22: every row with permanentlyDeleted = true has deleted = true
C22_PermanentlyDeletedIsDeleted ==
    \A r \in db : r.permanentlyDeleted => r.deleted

\* UpdateDatabaseOnly has set deleted = false on a permanently deleted row
C22_Witness ==
    /\ last.op = "UpdateDatabaseOnly"
    /\ last.res = "ok"
    /\ last.wrote = {"db_update"}
    /\ \E r \in LastRows(db) : r.permanentlyDeleted /\ ~r.deleted

\* no call but UpdateDatabaseOnly leaves a row with permanentlyDeleted =
\* true and deleted = false where there was none
C22_OnlyUpdateDatabaseOnlyBreaksIt ==
    [][(/\ \A r \in db : r.permanentlyDeleted => r.deleted
        /\ last'.op # "UpdateDatabaseOnly")
       => \A r \in db' : r.permanentlyDeleted => r.deleted]_vars

\* C23: the fan-out of a global rename leaves authorized, ipAssignments,
\* tags and capabilities of the member on the controller as they were in
\* every network but the edited one, whatever else the request carries
C23_FanoutChangesOnlyTheName ==
    \A id \in DomCarry.ids, nwid \in DomCarry.nets,
       p \in DomCarry.params \cup {ParamNameIps("b", {"10.0.0.1"})} :
      \A env \in Envs(DomCarry, NULL, Cardinality(DomCarry.nets), 1) :
        LET w == UpdateOp(Now, opts, Input(id, nwid, NULL, FALSE, p), env)
        IN  \A z \in {x \in w.zt : x.nwid # nwid} :
               \E z0 \in ZtRows(zt, z.id, z.nwid) :
                  /\ z.authorized = z0.authorized
                  /\ z.ipAssignments = z0.ipAssignments
                  /\ z.tags = z0.tags
                  /\ z.capabilities = z0.capabilities

\* an Update that renamed and authorized the member in one network has
\* left it authorized on the controller in another network, whose row says
\* authorized = false
C23_Witness ==
    /\ last.op = "Update"
    /\ last.res = "ok"
    /\ last.in.p.has = {"name", "authorized"}
    /\ last.in.p.authorized
    /\ \E z \in zt, r \in db :
          /\ z.nwid # last.in.nwid
          /\ r.nwid = z.nwid /\ r.id = z.id
          /\ z.authorized /\ ~r.authorized
          /\ z.name = last.in.p.name /\ r.name = last.in.p.name

\* a fan-out of a request that carries the name alone changes the name alone
C23_NameAloneChangesOnlyTheName ==
    \A id \in DomCarry.ids, nwid \in DomCarry.nets :
      \A env \in Envs(DomCarry, NULL, Cardinality(DomCarry.nets), 1) :
        LET w == UpdateOp(Now, opts,
                          Input(id, nwid, NULL, FALSE, ParamName("b")), env)
        IN  \A z \in {x \in w.zt : x.nwid # nwid} :
               \E z0 \in ZtRows(zt, z.id, z.nwid) :
                  /\ z.authorized = z0.authorized
                  /\ z.ipAssignments = z0.ipAssignments
                  /\ z.tags = z0.tags
                  /\ z.capabilities = z0.capabilities

\* C24: however a stash and a delete of one member interleave, a row with
\* deleted = true is not removed: the row of a stashed member stays in the
\* table
C24_StashedRowIsNeverRemoved ==
    [][\A r \in db :
          r.deleted => \E x \in db' : x.id = r.id /\ x.nwid = r.nwid]_vars

\* a delete that read the row before a stash marked it has removed the row
\* after the stash
C24_Witness ==
    /\ last.op = "delete"
    /\ last.afterStash
    /\ last.res = "ok"
    /\ "db_delete" \in last.wrote
    /\ LastRows(db) = {}

\* a delete that reads the row after the stash marked it keeps the row
C24_DeleteThatSawTheMarkKeepsTheRow ==
    [][\A c \in pend :
          (/\ c.at = "called"
           /\ pend' = pend \ {c}
           /\ \E r \in c.found : r.deleted
           /\ Rows(db, c.in.id, c.in.nwid) # {})
          => \E x \in db' : /\ x.id = c.in.id /\ x.nwid = c.in.nwid
                            /\ x.permanentlyDeleted]_vars

\* the non-stashed rows in d carry one name, and for every network the
\* controller z holds the name of the row
NamesAgree(d, z) ==
    /\ \A r1 \in d, r2 \in d :
          (r1.id = r2.id /\ ~r1.deleted /\ ~r2.deleted) => r1.name = r2.name
    /\ \A r \in d : ~r.deleted =>
          \A m \in ZtRows(z, r.id, r.nwid) : m.name = r.name

\* C25: once the Updates that rename one member from two networks of one
\* owner under global naming have all returned, the non-stashed records of
\* the member carry one name, the same on controller and table
C25_ConcurrentRenamesAgree ==
    (pend = {} /\ last.op = "Update" /\ last.res = "ok") => NamesAgree(db, zt)

\* two renames from two networks have returned ok and left the member with
\* two names, and a network where controller and table differ
C25_Witness ==
    /\ pend = {}
    /\ last.op = "Update"
    /\ last.res = "ok"
    /\ \E r1 \in db, r2 \in db : r1.nwid # r2.nwid /\ r1.name # r2.name
    /\ \E r \in db, m \in zt :
          m.id = r.id /\ m.nwid = r.nwid /\ m.name # r.name

\* a rename that runs from its first to its last statement leaves names
\* that agree
C25_RenamesInTurnAgree ==
    \A id \in DomTwo.ids, nwid \in DomTwo.nets, p \in DomTwo.params :
      \A env \in Envs(DomTwo, NULL, Cardinality(DomTwo.nets), 1) :
        LET w == UpdateOp(Now, opts, Input(id, nwid, NULL, FALSE, p), env)
        IN  NamesAgree(w.db, w.zt)

\* C26: a member whose row is stashed or permanently deleted is
\* unauthorized in the table and on the controller
C26_StashedIsUnauthorized ==
    \A r \in db :
       (r.deleted \/ r.permanentlyDeleted) =>
          /\ ~r.authorized
          /\ \A m \in ZtRows(zt, r.id, r.nwid) : ~m.authorized

\* stash has marked the row of an authorized member although its
\* de-authorizing controller call failed
C26_Witness ==
    /\ last.op = "stash"
    /\ last.res = "ok"
    /\ "zt_update" \in last.failed
    /\ \E r \in LastRows(db) :
          /\ r.deleted /\ r.authorized
          /\ \E m \in ZtRows(zt, r.id, r.nwid) : m.authorized

\* a stash of an active member that the controller answers leaves the
\* member unauthorized in the table and on the controller
C26_AnsweredStashDeauthorizes ==
    \A id \in DomLife.ids, nwid \in DomLife.nets, org \in DomLife.orgs :
      \A env \in Envs(DomLife, org, 1, 2) :
        LET w == StashOp(Now, opts, Input(id, nwid, org, FALSE, NoParams), env)
        IN  (/\ env.zt = 1
             /\ \E r \in Rows(db, id, nwid) : ~r.deleted)
            => /\ \A r \in Rows(w.db, id, nwid) : r.deleted /\ ~r.authorized
               /\ \A m \in ZtRows(w.zt, id, nwid) : ~m.authorized

\* C27: delete of a member whose row is not stashed calls the controller
\* before it touches the table; when that call fails, the table is as it
\* was, no webhook and no notification went out, and delete fails
C27_ControllerDeleteComesFirst ==
    \A id \in Dom.ids, nwid \in Dom.nets, org \in Dom.orgs, c \in Dom.centrals :
      \A env \in Envs(Dom, org, 1, 1) :
        LET in == Input(id, nwid, org, c, NoParams)
            w == DeleteOp(Now, opts, in, env)
            calls == {i \in 1..Len(w.ev) : w.ev[i].k = "zt_delete"}
        IN  (Permitted(opts, org) /\ ~AlreadyStashed(db, in)) =>
               /\ Cardinality(calls) = 1
               /\ \A i \in calls, j \in WritesAt(w) \cup SideEffectsAt(w) :
                     i < j
               /\ \A i \in calls :
                     ~w.ev[i].ok =>
                        /\ w.db = db
                        /\ WritesAt(w) = {}
                        /\ SideEffectsAt(w) = {}
                        /\ w.res # "run"

\* delete of an active member has failed on the controller, and the row is
\* still there
C27_Witness ==
    /\ last.op = "delete"
    /\ ~last.in.central
    /\ last.failed = {"zt_delete"}
    /\ last.res = "INTERNAL_SERVER_ERROR"
    /\ last.wrote = {}
    /\ \E r \in LastRows(db) : ~r.deleted

\* an Update request with every field the row stores
ParamStored ==
    [NoParams EXCEPT !.has = {"name", "authorized", "description"},
                     !.name = "b", !.authorized = TRUE, !.description = "d"]

\* C28: on a non-central network Update writes the row of the edited
\* network after the controller has accepted the change; when the
\* controller call on the edited network fails, that row is as it was; and
\* Update inserts no row, removes none and leaves deleted and
\* permanentlyDeleted of every row alone
C28_UpdateWritesAfterTheController ==
    \A id \in DomCarry.ids, nwid \in DomCarry.nets,
       p \in DomCarry.params \cup {ParamStored} :
      \A env \in Envs(DomCarry, NULL, Cardinality(DomCarry.nets), 1) :
        LET w == UpdateOp(Now, opts, Input(id, nwid, NULL, FALSE, p), env)
            calls == {i \in 1..Len(w.ev) :
                        w.ev[i].k = "zt_update" /\ w.ev[i].n = nwid}
            writes == {i \in 1..Len(w.ev) :
                         w.ev[i].k = "db_update" /\ w.ev[i].n = nwid}
        IN  /\ \A j \in writes : \E i \in calls : i < j /\ w.ev[i].ok
            /\ (\A i \in calls : ~w.ev[i].ok) =>
                  Rows(w.db, id, nwid) = Rows(db, id, nwid)
            /\ {r.nodeid : r \in w.db} = {r.nodeid : r \in db}
            /\ \A r \in db, x \in w.db :
                  x.nodeid = r.nodeid =>
                     /\ x.deleted = r.deleted
                     /\ x.permanentlyDeleted = r.permanentlyDeleted
                     /\ x.id = r.id /\ x.nwid = r.nwid

\* an Update has renamed the member in another network and then failed on
\* the controller for the edited one, whose row keeps its name
C28_Witness ==
    /\ last.op = "Update"
    /\ last.res = "FORBIDDEN"
    /\ last.failed = {"zt_update"}
    /\ last.wrote = {"db_update"}
    /\ \E r \in LastRows(db) : r.name # last.in.p.name
    /\ \E r \in db : r.nwid # last.in.nwid /\ r.name = last.in.p.name

\* the rows create leaves for a member that had row r, when it resets
\* nothing but the two flags
FlagsReset(r) ==
    {[r EXCEPT !.deleted = FALSE, !.permanentlyDeleted = FALSE]}

\* C29: with global naming off, create of a member that has a row resets
\* deleted and permanentlyDeleted of the row and leaves its name and every
\* other column as they were
C29_ReaddKeepsTheName ==
    \A id \in DomReadd.ids, nwid \in DomReadd.nets, org \in DomReadd.orgs :
      \A env \in Envs(DomReadd, org, 0, 1) :
        LET w == CreateOp(Now, opts, Input(id, nwid, org, FALSE, NoParams), env)
        IN  (~opts.renameNodeGlobally /\ Permitted(opts, org)) =>
               \A r \in Rows(db, id, nwid) :
                  Rows(w.db, id, nwid) = FlagsReset(r)

\* with "Add Member ID as Name" on, create has re-added a member that had
\* been named: the row carries the member id, the controller still the name
C29_Witness ==
    /\ ~opts.renameNodeGlobally
    /\ opts.addMemberIdAsName
    /\ last.op = "create"
    /\ last.res = "ok"
    /\ last.wrote = {"db_update"}
    /\ \E r \in LastRows(db), m \in ZtRows(zt, last.in.id, last.in.nwid) :
          /\ r.name = last.in.id
          /\ m.name = "a"
          /\ ~r.deleted

\* with both naming options off the re-add resets the two flags and no more
C29_ReaddKeepsTheNameWithoutIdNaming ==
    \A id \in DomReadd.ids, nwid \in DomReadd.nets, org \in DomReadd.orgs :
      \A env \in Envs(DomReadd, org, 0, 1) :
        LET w == CreateOp(Now, opts, Input(id, nwid, org, FALSE, NoParams), env)
        IN  (/\ ~opts.renameNodeGlobally
             /\ ~opts.addMemberIdAsName
             /\ Permitted(opts, org)) =>
               \A r \in Rows(db, id, nwid) :
                  Rows(w.db, id, nwid) = FlagsReset(r)

\* the records getNetworkById lists for member id of nwid when the
\* controller reports the member
ListedAs(id, nwid) ==
    UNION {{m \in MergedMembers(db, nwid, reported) : m.id = id}
             : reported \in {x \in Reports(nwid) : id \in IdsOf(x)}}

\* C30: for a member with a row with deleted = false and a controller
\* record, getMemberById and getNetworkById return the same name and the
\* same authorized
C30_BothReadsAgree ==
    \A id \in DomRead.ids, nwid \in DomRead.nets :
       (\E r \in Rows(db, id, nwid) : ~r.deleted) =>
          \A one \in GetMemberByIdOp(db, zt, id, nwid),
             listed \in ListedAs(id, nwid) :
                /\ one.name = listed.name
                /\ one.authorized = listed.authorized

\* getMemberById has returned a member as authorized that getNetworkById
\* lists as unauthorized
C30_Witness ==
    /\ last.op = "getMemberById"
    /\ last.res = "ok"
    /\ \E one \in last.members :
          /\ one.authorized
          /\ "nodeid" \in DOMAIN one
          /\ ~one.deleted
          /\ \E listed \in ListedAs(one.id, one.nwid) : ~listed.authorized

\* getMemberById takes the fields the controller holds from the controller,
\* getNetworkById the columns of the row from the row
C30_EachReadHasItsOwnPrecedence ==
    \A id \in DomRead.ids, nwid \in DomRead.nets :
       \A r \in {x \in Rows(db, id, nwid) : ~x.deleted},
          m \in ZtRows(zt, id, nwid) :
          /\ \A one \in GetMemberByIdOp(db, zt, id, nwid) :
                one.name = m.name /\ one.authorized = m.authorized
          /\ \A listed \in ListedAs(id, nwid) :
                listed.name = r.name /\ listed.authorized = r.authorized

====
